---- MODULE Spec2Model ----
(***************************************************************************)
(* Model of the property ETL pipeline: extract (parse + per-record         *)
(* validation), transform (denormalisation into fact rows) and the         *)
(* orchestration in run_etl.                                               *)
(*                                                                         *)
(* JSON / Python values are records of one fixed shape                     *)
(*     [t, s, m, e, items]                                                 *)
(* t is the tag ("null", "str", "num", "bool", "list"), s the characters   *)
(* of a string (a sequence of one-character strings), m and e a decimal    *)
(* number m * 10^(-e) kept normalised (e = 0 or m not a multiple of 10),   *)
(* items the elements of a list (child objects).  An object (a Python      *)
(* dict, a validated model) is a function from keys to such values.        *)
(***************************************************************************)
EXTENDS Integers, Sequences, FiniteSets, TLC

(***************************************************************************)
(* Values                                                                  *)
(***************************************************************************)
VNull == [t |-> "null", s |-> <<>>, m |-> 0, e |-> 0, items |-> <<>>]

VStr(chars) == [t |-> "str", s |-> chars, m |-> 0, e |-> 0, items |-> <<>>]

VBool(b) == [t |-> "bool", s |-> <<>>, m |-> IF b THEN 1 ELSE 0, e |-> 0, items |-> <<>>]

VList(xs) == [t |-> "list", s |-> <<>>, m |-> 0, e |-> 0, items |-> xs]

RECURSIVE Normalise(_, _)
Normalise(m, e) ==
    IF e > 0 /\ m % 10 = 0 THEN Normalise(m \div 10, e - 1) ELSE <<m, e>>

VNum(m, e) ==
    LET n == Normalise(m, e)
    IN  [t |-> "num", s |-> <<>>, m |-> n[1], e |-> n[2], items |-> <<>>]

(***************************************************************************)
(* Characters and the str methods the validators use                       *)
(***************************************************************************)
LowerLetters == <<"a","b","c","d","e","f","g","h","i","j","k","l","m",
                  "n","o","p","q","r","s","t","u","v","w","x","y","z">>

UpperLetters == <<"A","B","C","D","E","F","G","H","I","J","K","L","M",
                  "N","O","P","Q","R","S","T","U","V","W","X","Y","Z">>

DigitChars == <<"0","1","2","3","4","5","6","7","8","9">>

Whitespace == {" ", "\t", "\n", "\r"}

IsDigit(c) == \E i \in DOMAIN DigitChars : DigitChars[i] = c

DigitVal(c) == (CHOOSE i \in DOMAIN DigitChars : DigitChars[i] = c) - 1

\* str.upper(), character by character
UpperChar(c) ==
    IF \E i \in DOMAIN LowerLetters : LowerLetters[i] = c
    THEN UpperLetters[CHOOSE i \in DOMAIN LowerLetters : LowerLetters[i] = c]
    ELSE c

Upper(chars) == [i \in DOMAIN chars |-> UpperChar(chars[i])]

RECURSIVE LStrip(_)
LStrip(chars) ==
    IF chars # <<>> /\ Head(chars) \in Whitespace THEN LStrip(Tail(chars)) ELSE chars

RECURSIVE RStrip(_)
RStrip(chars) ==
    IF chars # <<>> /\ chars[Len(chars)] \in Whitespace
    THEN RStrip(SubSeq(chars, 1, Len(chars) - 1))
    ELSE chars

\* str.strip()
Strip(chars) == RStrip(LStrip(chars))

IsNumericChar(c) == IsDigit(c) \/ c = "."

CountDots(chars) == Cardinality({i \in DOMAIN chars : chars[i] = "."})

CountDigits(chars) == Cardinality({i \in DOMAIN chars : IsDigit(chars[i])})

RECURSIVE DigitsToInt(_, _)
DigitsToInt(chars, acc) ==
    IF chars = <<>> THEN acc
    ELSE DigitsToInt(Tail(chars),
                     IF IsDigit(Head(chars)) THEN acc * 10 + DigitVal(Head(chars)) ELSE acc)

FractionDigits(chars) ==
    IF CountDots(chars) = 0 THEN 0
    ELSE LET d == CHOOSE i \in DOMAIN chars : chars[i] = "."
         IN  Len(chars) - d

\* float(text) for a text of digits and decimal points: a ValueError unless
\* it holds at least one digit and at most one point
UnsignedFloatOk(chars) ==
    /\ \A i \in DOMAIN chars : IsNumericChar(chars[i])
    /\ CountDigits(chars) >= 1
    /\ CountDots(chars) <= 1

UnsignedFloat(chars) == VNum(DigitsToInt(chars, 0), FractionDigits(chars))

(***************************************************************************)
(* Field validators (mode="before") of src/models/property.py              *)
(***************************************************************************)
YES == <<"Y","E","S">>

NO == <<"N","O">>

\* HOARecord.validate_flag: anything but yes/no becomes None
validate_flag(v) ==
    IF v.t = "null" THEN VNull
    ELSE IF v.t = "str"
         THEN LET v_upper == Upper(Strip(v.s))
              IN  IF v_upper \notin {YES, NO} THEN VNull ELSE VStr(v_upper)
         ELSE VNull

\* RehabRecord.normalize_flags: the same body as validate_flag
normalize_flags(v) ==
    IF v.t = "null" THEN VNull
    ELSE IF v.t = "str"
         THEN LET v_upper == Upper(Strip(v.s))
              IN  IF v_upper \notin {YES, NO} THEN VNull ELSE VStr(v_upper)
         ELSE VNull

\* Property.normalize_yes_no_flags: yes/no is normalised, any other value
\* is returned as it came
normalize_yes_no_flags(v) ==
    IF v.t = "null" THEN VNull
    ELSE IF v.t = "str" /\ Upper(Strip(v.s)) \in {YES, NO}
         THEN VStr(Upper(Strip(v.s)))
         ELSE v

\* Property.normalize_empty_strings
normalize_empty_strings(v) ==
    IF v.t = "str" /\ Strip(v.s) = <<>> THEN VNull ELSE v

\* mutant of clean_sqft_total: the text is parsed as it is, nothing stripped
clean_sqft_total_noStrip(v) ==
    IF v.t = "null" THEN VNull
    ELSE IF v.t = "str"
         THEN IF v.s # <<>> /\ UnsignedFloatOk(v.s) THEN UnsignedFloat(v.s) ELSE VNull
         ELSE IF v.t \in {"num", "bool"} THEN VNum(v.m, v.e) ELSE VNull

\* Property.clean_sqft_total
clean_sqft_total(v) ==
    IF v.t = "null" THEN VNull
    ELSE IF v.t = "str"
         THEN LET numeric_str == SelectSeq(v.s, IsNumericChar)
              IN  IF numeric_str = <<>> THEN VNull
                  ELSE IF UnsignedFloatOk(numeric_str)
                       THEN UnsignedFloat(numeric_str)
                       ELSE VNull              \* ValueError
         ELSE IF v.t \in {"num", "bool"}
              THEN VNum(v.m, v.e)               \* float(v)
              ELSE VNull                        \* TypeError

ApplyBefore(before, v) ==
    CASE before = "validate_flag"           -> validate_flag(v)
      [] before = "normalize_flags"         -> normalize_flags(v)
      [] before = "normalize_yes_no_flags"  -> normalize_yes_no_flags(v)
      [] before = "normalize_empty_strings" -> normalize_empty_strings(v)
      [] before = "clean_sqft_total"        -> clean_sqft_total(v)
      [] OTHER                              -> v

(***************************************************************************)
(* The library's conversion of one value to a field's annotated type       *)
(* (lax mode): an outcome [err, value], err = "" when the value is taken.  *)
(***************************************************************************)
\* a numeric text: optional sign, digits, at most one decimal point
SignedFloatOk(chars) ==
    LET body == IF chars # <<>> /\ Head(chars) \in {"-", "+"} THEN Tail(chars) ELSE chars
    IN  UnsignedFloatOk(body)

SignedFloat(chars) ==
    LET neg  == chars # <<>> /\ Head(chars) = "-"
        body == IF chars # <<>> /\ Head(chars) \in {"-", "+"} THEN Tail(chars) ELSE chars
        mag  == DigitsToInt(body, 0)
    IN  VNum(IF neg THEN 0 - mag ELSE mag, FractionDigits(body))

CoerceStr(v) ==
    IF v.t = "str" THEN [err |-> "", value |-> v]
    ELSE [err |-> "string_type", value |-> VNull]

CoerceFloat(v) ==
    CASE v.t = "num"  -> [err |-> "", value |-> v]
      [] v.t = "bool" -> [err |-> "", value |-> VNum(v.m, 0)]
      [] v.t = "str"  -> IF SignedFloatOk(Strip(v.s))
                         THEN [err |-> "", value |-> SignedFloat(Strip(v.s))]
                         ELSE [err |-> "float_parsing", value |-> VNull]
      [] OTHER        -> [err |-> "float_type", value |-> VNull]

CoerceInt(v) ==
    CASE v.t = "num"  -> IF v.e = 0 THEN [err |-> "", value |-> v]
                         ELSE [err |-> "int_from_float", value |-> VNull]
      [] v.t = "bool" -> [err |-> "", value |-> VNum(v.m, 0)]
      [] v.t = "str"  -> IF SignedFloatOk(Strip(v.s)) /\ CountDots(v.s) = 0
                         THEN [err |-> "", value |-> SignedFloat(Strip(v.s))]
                         ELSE [err |-> "int_parsing", value |-> VNull]
      [] OTHER        -> [err |-> "int_type", value |-> VNull]

Coerce(type, v) ==
    CASE type = "str"   -> CoerceStr(v)
      [] type = "float" -> CoerceFloat(v)
      [] type = "int"   -> CoerceInt(v)

(***************************************************************************)
(* The declared fields: name, alias, type, required, before-validator      *)
(***************************************************************************)
Fld(name, alias, type, required, before) ==
    [name |-> name, alias |-> alias, type |-> type,
     required |-> required, before |-> before]

ValuationRecordFields == <<
    Fld("list_price", "List_Price", "float", FALSE, ""),
    Fld("previous_rent", "Previous_Rent", "float", FALSE, ""),
    Fld("arv", "ARV", "float", FALSE, ""),
    Fld("rent_zestimate", "Rent_Zestimate", "float", FALSE, ""),
    Fld("low_fmr", "Low_FMR", "float", FALSE, ""),
    Fld("high_fmr", "High_FMR", "float", FALSE, ""),
    Fld("zestimate", "Zestimate", "float", FALSE, ""),
    Fld("expected_rent", "Expected_Rent", "float", FALSE, ""),
    Fld("redfin_value", "Redfin_Value", "float", FALSE, "") >>

HOARecordFields == <<
    Fld("hoa_amount", "HOA", "float", FALSE, ""),
    Fld("hoa_flag", "HOA_Flag", "str", FALSE, "validate_flag") >>

RehabRecordFields == <<
    Fld("underwriting_rehab", "Underwriting_Rehab", "float", FALSE, ""),
    Fld("rehab_calculation", "Rehab_Calculation", "float", FALSE, ""),
    Fld("paint", "Paint", "str", FALSE, ""),
    Fld("flooring_flag", "Flooring_Flag", "str", FALSE, "normalize_flags"),
    Fld("foundation_flag", "Foundation_Flag", "str", FALSE, "normalize_flags"),
    Fld("roof_flag", "Roof_Flag", "str", FALSE, "normalize_flags"),
    Fld("hvac_flag", "HVAC_Flag", "str", FALSE, "normalize_flags"),
    Fld("kitchen_flag", "Kitchen_Flag", "str", FALSE, "normalize_flags"),
    Fld("bathroom_flag", "Bathroom_Flag", "str", FALSE, "normalize_flags"),
    Fld("appliances_flag", "Appliances_Flag", "str", FALSE, "normalize_flags"),
    Fld("windows_flag", "Windows_Flag", "str", FALSE, "normalize_flags"),
    Fld("landscaping_flag", "Landscaping_Flag", "str", FALSE, "normalize_flags"),
    Fld("trashout_flag", "Trashout_Flag", "str", FALSE, "normalize_flags") >>

PropertyFields == <<
    Fld("property_title", "Property_Title", "str", TRUE, ""),
    Fld("address", "Address", "str", TRUE, ""),
    Fld("street_address", "Street_Address", "str", TRUE, ""),
    Fld("city", "City", "str", TRUE, ""),
    Fld("state", "State", "str", TRUE, ""),
    Fld("zip_code", "Zip", "str", TRUE, ""),
    Fld("latitude", "Latitude", "float", TRUE, ""),
    Fld("longitude", "Longitude", "float", TRUE, ""),
    Fld("property_type", "Property_Type", "str", TRUE, ""),
    Fld("year_built", "Year_Built", "int", FALSE, ""),
    Fld("sqft_total", "SQFT_Total", "float", FALSE, "clean_sqft_total"),
    Fld("sqft_basement", "SQFT_Basement", "float", FALSE, ""),
    Fld("sqft_mu", "SQFT_MU", "float", FALSE, ""),
    Fld("bed", "Bed", "int", FALSE, ""),
    Fld("bath", "Bath", "int", FALSE, ""),
    Fld("layout", "Layout", "str", FALSE, ""),
    Fld("pool", "Pool", "str", FALSE, "normalize_yes_no_flags"),
    Fld("parking", "Parking", "str", FALSE, ""),
    Fld("basement_yes_no", "BasementYesNo", "str", FALSE, ""),
    Fld("water", "Water", "str", FALSE, ""),
    Fld("sewage", "Sewage", "str", FALSE, ""),
    Fld("htw", "HTW", "str", FALSE, "normalize_yes_no_flags"),
    Fld("commercial", "Commercial", "str", FALSE, "normalize_yes_no_flags"),
    Fld("highway", "Highway", "str", FALSE, ""),
    Fld("train", "Train", "str", FALSE, ""),
    Fld("flood", "Flood", "str", FALSE, "normalize_empty_strings"),
    Fld("occupancy", "Occupancy", "str", FALSE, "normalize_empty_strings"),
    Fld("net_yield", "Net_Yield", "float", FALSE, ""),
    Fld("irr", "IRR", "float", FALSE, ""),
    Fld("taxes", "Taxes", "float", FALSE, ""),
    Fld("tax_rate", "Tax_Rate", "float", FALSE, ""),
    Fld("market", "Market", "str", FALSE, ""),
    Fld("source", "Source", "str", FALSE, ""),
    Fld("neighborhood_rating", "Neighborhood_Rating", "int", FALSE, ""),
    Fld("school_average", "School_Average", "float", FALSE, ""),
    Fld("subdivision", "Subdivision", "str", FALSE, ""),
    Fld("reviewed_status", "Reviewed_Status", "str", FALSE, "normalize_empty_strings"),
    Fld("most_recent_status", "Most_Recent_Status", "str", FALSE, ""),
    Fld("selling_reason", "Selling_Reason", "str", FALSE, ""),
    Fld("final_reviewer", "Final_Reviewer", "str", FALSE, ""),
    Fld("seller_retained_broker", "Seller_Retained_Broker", "str", FALSE, ""),
    Fld("rent_restricted", "Rent_Restricted", "str", FALSE, "normalize_yes_no_flags") >>

\* the nested collections of Property: name, alias, element model
PropertyChildLists == <<
    [name |-> "valuation", alias |-> "Valuation", fields |-> ValuationRecordFields],
    [name |-> "hoa", alias |-> "HOA", fields |-> HOARecordFields],
    [name |-> "rehab", alias |-> "Rehab", fields |-> RehabRecordFields] >>

(***************************************************************************)
(* Model validation: every field is looked up (alias first, then, with     *)
(* populate_by_name, the field name), run through its before-validator and *)
(* converted to its type; the errors of all fields are collected in field  *)
(* order.  An error is [field, index, sub, type]: index and sub locate an  *)
(* error inside the index-th element of a nested collection.               *)
(***************************************************************************)
\* the input of model_validate is a dict, not a scalar or a list
IsDict(raw) == DOMAIN raw # {"t", "s", "m", "e", "items"}

Present(raw, f) == f.alias \in DOMAIN raw \/ f.name \in DOMAIN raw

Lookup(raw, f) == IF f.alias \in DOMAIN raw THEN raw[f.alias] ELSE raw[f.name]

\* one scalar field of a model: [err, value]
FieldOutcome(f, raw) ==
    IF ~Present(raw, f)
    THEN [err |-> IF f.required THEN "missing" ELSE "", value |-> VNull]
    ELSE LET v == ApplyBefore(f.before, Lookup(raw, f))
         IN  IF v.t = "null" /\ ~f.required
             THEN [err |-> "", value |-> VNull]
             ELSE Coerce(f.type, v)

FieldNames(fields) == {fields[i].name : i \in DOMAIN fields}

FieldNamed(fields, n) == fields[CHOOSE i \in DOMAIN fields : fields[i].name = n]

\* mutant of ScalarErrors: validation stops at the first field in error
RECURSIVE ScalarErrors_firstOnly(_, _, _)
ScalarErrors_firstOnly(fields, raw, i) ==
    IF i > Len(fields) THEN <<>>
    ELSE LET o == FieldOutcome(fields[i], raw)
         IN  IF o.err = "" THEN ScalarErrors_firstOnly(fields, raw, i + 1)
             ELSE << [field |-> fields[i].alias, index |-> 0, sub |-> "",
                      type |-> o.err] >>

RECURSIVE ScalarErrors(_, _, _)
ScalarErrors(fields, raw, i) ==
    IF i > Len(fields) THEN <<>>
    ELSE LET o == FieldOutcome(fields[i], raw)
         IN  (IF o.err = "" THEN <<>>
              ELSE << [field |-> fields[i].alias, index |-> 0, sub |-> "",
                       type |-> o.err] >>)
             \o ScalarErrors(fields, raw, i + 1)

ScalarValues(fields, raw) ==
    [n \in FieldNames(fields) |-> FieldOutcome(FieldNamed(fields, n), raw).value]

\* ValuationRecord / HOARecord / RehabRecord .model_validate
ChildValidate(fields, raw) ==
    [errors |-> ScalarErrors(fields, raw, 1), model |-> ScalarValues(fields, raw)]

\* one nested collection of a Property: absent -> default_factory=list
RECURSIVE ChildListErrors(_, _, _)
ChildListErrors(c, items, i) ==
    IF i > Len(items) THEN <<>>
    ELSE LET ce == IF IsDict(items[i])
                   THEN ChildValidate(c.fields, items[i]).errors
                   ELSE << [field |-> "", type |-> "model_type"] >>
         IN  [k \in DOMAIN ce |->
                 [field |-> c.alias, index |-> i, sub |-> ce[k].field,
                  type |-> ce[k].type]]
             \o ChildListErrors(c, items, i + 1)

ChildListOutcome(c, raw) ==
    IF ~Present(raw, c) THEN [errors |-> <<>>, value |-> VList(<<>>)]
    ELSE LET v == Lookup(raw, c)
         IN  IF v.t # "list"
             THEN [errors |-> << [field |-> c.alias, index |-> 0, sub |-> "",
                                  type |-> "list_type"] >>,
                   value |-> VList(<<>>)]
             ELSE [errors |-> ChildListErrors(c, v.items, 1),
                   value |-> VList([i \in DOMAIN v.items |->
                                       ChildValidate(c.fields, v.items[i]).model])]

RECURSIVE AllChildErrors(_, _)
AllChildErrors(raw, i) ==
    IF i > Len(PropertyChildLists) THEN <<>>
    ELSE ChildListOutcome(PropertyChildLists[i], raw).errors \o AllChildErrors(raw, i + 1)

ChildListNames == {PropertyChildLists[i].name : i \in DOMAIN PropertyChildLists}

ChildListNamed(n) ==
    PropertyChildLists[CHOOSE i \in DOMAIN PropertyChildLists :
                           PropertyChildLists[i].name = n]

\* the declared scalar fields of Property, by field name
PropertyFieldByName ==
    [n \in FieldNames(PropertyFields) |-> FieldNamed(PropertyFields, n)]

\* the errors that Property.model_validate raises with for raw_record, in
\* field order; empty when the record validates
validation_errors(raw) ==
    IF ~IsDict(raw)
    THEN << [field |-> "", index |-> 0, sub |-> "", type |-> "model_type"] >>
    ELSE ScalarErrors(PropertyFields, raw, 1) \o AllChildErrors(raw, 1)

\* the Property that Property.model_validate returns for raw_record
validated_model(raw) ==
    [n \in DOMAIN PropertyFieldByName \cup ChildListNames |->
        IF n \in ChildListNames
        THEN ChildListOutcome(ChildListNamed(n), raw).value
        ELSE FieldOutcome(PropertyFieldByName[n], raw).value]

(***************************************************************************)
(* transform.py: denormalisation                                           *)
(***************************************************************************)
EmptyFacts == [properties |-> <<>>, valuations |-> <<>>, hoa_fees |-> <<>>,
               rehab_assessments |-> <<>>]

\* mutant of ChildRows: the index column keeps enumerate's 0-based count
ChildRows_zeroBased(children, fields, index_key, property_id) ==
    [i \in DOMAIN children |->
        [k \in {"property_id", index_key} \cup FieldNames(fields) |->
            IF k = "property_id" THEN property_id
            ELSE IF k = index_key THEN i - 1
            ELSE children[i][k]]]

\* the child rows of one collection of one Property: enumerate(children),
\* each row carrying property_id and the 1-based <entity>_index
ChildRows(children, fields, index_key, property_id) ==
    [i \in DOMAIN children |->
        [k \in {"property_id", index_key} \cup FieldNames(fields) |->
            IF k = "property_id" THEN property_id
            ELSE IF k = index_key THEN (i - 1) + 1
            ELSE children[i][k]]]

\* mutant of TransformOne: property_id is read before the row is appended
TransformOne_idBeforeAppend(facts, property_obj) ==
    LET property_row == [k \in FieldNames(PropertyFields) |-> property_obj[k]]
        property_id  == Len(facts.properties)
    IN  [properties |-> Append(facts.properties, property_row),
         valuations |-> facts.valuations \o
             ChildRows(property_obj["valuation"].items, ValuationRecordFields,
                       "valuation_index", property_id),
         hoa_fees |-> facts.hoa_fees \o
             ChildRows(property_obj["hoa"].items, HOARecordFields,
                       "hoa_index", property_id),
         rehab_assessments |-> facts.rehab_assessments \o
             ChildRows(property_obj["rehab"].items, RehabRecordFields,
                       "rehab_index", property_id)]

\* one iteration of the loop over the properties
TransformOne(facts, property_obj) ==
    LET property_row == [k \in FieldNames(PropertyFields) |-> property_obj[k]]
        rows         == Append(facts.properties, property_row)
        property_id  == Len(rows)
    IN  [properties |-> rows,
         valuations |-> facts.valuations \o
             ChildRows(property_obj["valuation"].items, ValuationRecordFields,
                       "valuation_index", property_id),
         hoa_fees |-> facts.hoa_fees \o
             ChildRows(property_obj["hoa"].items, HOARecordFields,
                       "hoa_index", property_id),
         rehab_assessments |-> facts.rehab_assessments \o
             ChildRows(property_obj["rehab"].items, RehabRecordFields,
                       "rehab_index", property_id)]

RECURSIVE TransformLoop(_, _, _)
TransformLoop(properties, i, facts) ==
    IF i > Len(properties) THEN facts
    ELSE TransformLoop(properties, i + 1, TransformOne(facts, properties[i]))

transform_properties_to_facts(properties) == TransformLoop(properties, 1, EmptyFacts)

\* mutant of Truthy: the test is "is not None", so empty strings are kept
Truthy_noneOnly(v) == v.t # "null"

\* prop.get(key) is truthy: neither None nor the empty string
Truthy(v) == v.t # "null" /\ ~(v.t = "str" /\ v.s = <<>>)

DimensionOf(rows, key) ==
    {rows[i][key] : i \in {j \in DOMAIN rows : Truthy(rows[j][key])}}

extract_dimension_values(f) ==
    [markets        |-> DimensionOf(f.properties, "market"),
     sources        |-> DimensionOf(f.properties, "source"),
     property_types |-> DimensionOf(f.properties, "property_type"),
     layouts        |-> DimensionOf(f.properties, "layout")]

EmptyDimensions == [markets |-> {}, sources |-> {}, property_types |-> {}, layouts |-> {}]

(***************************************************************************)
(* load.py: load_to_database, as the log of what it does to the database.  *)
(* fail_at names the call that raises MySQLError ("none": no call does).   *)
(***************************************************************************)
EntityOrder == <<"properties", "valuations", "hoa_fees", "rehab_assessments">>

\* mutant of LoadEntities: the MySQLError of an insert is rolled back and
\* swallowed, the later entity types are still attempted
RECURSIVE LoadEntities_goesOn(_, _, _)
LoadEntities_goesOn(f, fail_at, i) ==
    IF i > Len(EntityOrder) THEN <<>>
    ELSE LET ent == EntityOrder[i]
         IN  IF f[ent] = <<>> THEN LoadEntities_goesOn(f, fail_at, i + 1)
             ELSE << [op |-> "insert", what |-> ent],
                     [op |-> IF fail_at = ent THEN "rollback" ELSE "commit",
                      what |-> ent] >>
                  \o LoadEntities_goesOn(f, fail_at, i + 1)

RECURSIVE LoadEntities(_, _, _)
LoadEntities(f, fail_at, i) ==
    IF i > Len(EntityOrder) THEN <<>>
    ELSE LET ent == EntityOrder[i]
         IN  IF f[ent] = <<>> THEN LoadEntities(f, fail_at, i + 1)      \* skipped
             ELSE IF fail_at = ent
                  THEN << [op |-> "insert", what |-> ent],
                          [op |-> "rollback", what |-> ent] >>          \* raise
                  ELSE << [op |-> "insert", what |-> ent],
                          [op |-> "commit", what |-> ent] >>
                       \o LoadEntities(f, fail_at, i + 1)

load_to_database(f, fail_at) ==
    IF fail_at = "connect" THEN << [op |-> "connect_failed", what |-> ""] >>
    ELSE << [op |-> "connect", what |-> ""] >>
         \o (IF fail_at = "schema"
             THEN << [op |-> "execute_sql_file", what |-> ""],
                     [op |-> "rollback", what |-> "schema"] >>
             ELSE << [op |-> "execute_sql_file", what |-> ""],
                     [op |-> "commit", what |-> "schema"] >>
                  \o LoadEntities(f, fail_at, 1))
         \o << [op |-> "close", what |-> ""] >>                         \* finally

\* the calls that can raise for these facts
LoadFailures(f) ==
    {"none", "connect", "schema"} \cup
    {EntityOrder[i] : i \in {j \in DOMAIN EntityOrder : f[EntityOrder[j]] # <<>>}}

(***************************************************************************)
(* preprocess.py: the repair of the raw text.  A text is a sequence of     *)
(* one-character strings; a position is an index into it.                  *)
(***************************************************************************)
\* the characters of a string literal
Chars(str) == [i \in 1..Len(str) |-> SubSeq(str, i, i)]

IsUpper(c) == \E i \in DOMAIN UpperLetters : UpperLetters[i] = c

IsLower(c) == \E i \in DOMAIN LowerLetters : LowerLetters[i] = c

\* str.lower(), character by character
LowerChar(c) ==
    IF IsUpper(c)
    THEN LowerLetters[CHOOSE i \in DOMAIN UpperLetters : UpperLetters[i] = c]
    ELSE c

Lower(chars) == [i \in DOMAIN chars |-> LowerChar(chars[i])]

\* the character classes the five patterns use
InClass(class, c) ==
    CASE class = "\\s"         -> c \in Whitespace
      [] class = "\\d"         -> IsDigit(c)
      [] class = "A-Z"         -> IsUpper(c)
      [] class = "a-z"         -> IsLower(c)
      [] class = "a-zA-Z"      -> IsUpper(c) \/ IsLower(c)
      [] class = "a-zA-Z_"     -> IsUpper(c) \/ IsLower(c) \/ c = "_"
      [] class = "a-zA-Z0-9_"  -> IsUpper(c) \/ IsLower(c) \/ IsDigit(c) \/ c = "_"
      [] class = ",}"          -> c \in {",", "}"}
      [] class = "}]"          -> c \in {"}", "]"}

\* one character of the class at pos
At(chars, pos, class) == pos <= Len(chars) /\ InClass(class, chars[pos])

\* class* at pos, greedy: the position after the longest run
RECURSIVE Span(_, _, _)
Span(chars, pos, class) ==
    IF At(chars, pos, class) THEN Span(chars, pos + 1, class) ELSE pos

\* a match object: end is the position after the match (0: no match at this
\* position), g0 the matched text, g1..g3 the groups
NoMatch == [end |-> 0, g0 |-> <<>>, g1 |-> <<>>, g2 |-> <<>>, g3 |-> <<>>]

MatchAt(chars, pos, end, g1, g2, g3) ==
    [end |-> end, g0 |-> SubSeq(chars, pos, end - 1), g1 |-> g1, g2 |-> g2, g3 |-> g3]

\* :\s*([A-Z][a-zA-Z]*)\s*([,\}])
pattern_bareword(chars, pos) ==
    IF chars[pos] # ":" THEN NoMatch
    ELSE LET a == Span(chars, pos + 1, "\\s")
         IN  IF ~At(chars, a, "A-Z") THEN NoMatch
             ELSE LET b == Span(chars, a + 1, "a-zA-Z")
                      c == Span(chars, b, "\\s")
                  IN  IF ~At(chars, c, ",}") THEN NoMatch
                      ELSE MatchAt(chars, pos, c + 1,
                                   SubSeq(chars, a, b - 1), <<chars[c]>>, <<>>)

\* :\s*(\d+(?:\.\d+)?)\s+([a-z]+)\s*([,\}])
pattern_number_unit(chars, pos) ==
    IF chars[pos] # ":" THEN NoMatch
    ELSE LET a == Span(chars, pos + 1, "\\s")
         IN  IF ~At(chars, a, "\\d") THEN NoMatch
             ELSE LET b == Span(chars, a, "\\d")
                      c == IF b <= Len(chars) /\ chars[b] = "." /\ At(chars, b + 1, "\\d")
                           THEN Span(chars, b + 1, "\\d")
                           ELSE b
                      d == Span(chars, c, "\\s")
                  IN  IF d = c \/ ~At(chars, d, "a-z") THEN NoMatch
                      ELSE LET u == Span(chars, d, "a-z")
                               f == Span(chars, u, "\\s")
                           IN  IF ~At(chars, f, ",}") THEN NoMatch
                               ELSE MatchAt(chars, pos, f + 1,
                                            SubSeq(chars, a, c - 1),
                                            SubSeq(chars, d, u - 1), <<chars[f]>>)

\* ,\s*([\}\]])
pattern_trailing_comma(chars, pos) ==
    IF chars[pos] # "," THEN NoMatch
    ELSE LET a == Span(chars, pos + 1, "\\s")
         IN  IF ~At(chars, a, "}]") THEN NoMatch
             ELSE MatchAt(chars, pos, a + 1, <<chars[a]>>, <<>>, <<>>)

\* \{\s*([a-zA-Z_][a-zA-Z0-9_]*)\s*:
pattern_unquoted_key(chars, pos) ==
    IF chars[pos] # "{" THEN NoMatch
    ELSE LET a == Span(chars, pos + 1, "\\s")
         IN  IF ~At(chars, a, "a-zA-Z_") THEN NoMatch
             ELSE LET b == Span(chars, a + 1, "a-zA-Z0-9_")
                      c == Span(chars, b, "\\s")
                  IN  IF c > Len(chars) \/ chars[c] # ":" THEN NoMatch
                      ELSE MatchAt(chars, pos, c + 1,
                                   SubSeq(chars, a, b - 1), <<>>, <<>>)

\* ,\s*(\d+)\s*([,\}])
pattern_bare_number_in_object(chars, pos) ==
    IF chars[pos] # "," THEN NoMatch
    ELSE LET a == Span(chars, pos + 1, "\\s")
         IN  IF ~At(chars, a, "\\d") THEN NoMatch
             ELSE LET b == Span(chars, a, "\\d")
                      c == Span(chars, b, "\\s")
                  IN  IF ~At(chars, c, ",}") THEN NoMatch
                      ELSE MatchAt(chars, pos, c + 1,
                                   SubSeq(chars, a, b - 1), <<chars[c]>>, <<>>)

\* w2n.word_to_num for a single word, then str(int(result)): the number
\* words the generated texts use
NumberWords == <<
    [word |-> Chars("zero"),  digits |-> Chars("0")],
    [word |-> Chars("one"),   digits |-> Chars("1")],
    [word |-> Chars("two"),   digits |-> Chars("2")],
    [word |-> Chars("three"), digits |-> Chars("3")],
    [word |-> Chars("four"),  digits |-> Chars("4")],
    [word |-> Chars("five"),  digits |-> Chars("5")],
    [word |-> Chars("six"),   digits |-> Chars("6")],
    [word |-> Chars("seven"), digits |-> Chars("7")],
    [word |-> Chars("eight"), digits |-> Chars("8")],
    [word |-> Chars("nine"),  digits |-> Chars("9")],
    [word |-> Chars("ten"),   digits |-> Chars("10")],
    [word |-> Chars("twenty"), digits |-> Chars("20")] >>

try_convert_number_word(word) ==
    IF word = <<>> THEN word
    ELSE LET word_lower == Lower(word)
         IN  IF \E i \in DOMAIN NumberWords : NumberWords[i].word = word_lower
             THEN NumberWords[CHOOSE i \in DOMAIN NumberWords :
                                 NumberWords[i].word = word_lower].digits
             ELSE word

\* str.isdigit()
isdigit(chars) == chars # <<>> /\ \A i \in DOMAIN chars : IsDigit(chars[i])

\* one entry of fixes: the message before the colon, and what it names
Fixed(fix, arg, to) == [fix |-> fix, arg |-> arg, to |-> to]

\* a replacement function gives the replacement text and what it appends
\* to fixes
Replaced(text, fixes) == [text |-> text, fixes |-> fixes]

ReservedWords == {Chars("true"), Chars("false"), Chars("null")}

\* mutant of fix_any_bareword: the reserved words are not set apart, they
\* are quoted like any other bareword
fix_any_bareword_quotesReserved(match) ==
    LET bareword  == match.g1
        delimiter == match.g2
        converted == try_convert_number_word(bareword)
    IN  IF converted # bareword /\ isdigit(converted)
        THEN Replaced(<<":", " ">> \o converted \o delimiter,
                      << Fixed("Converted number word to digit", bareword,
                               converted) >>)
        ELSE Replaced(<<":", " ", "\"">> \o bareword \o <<"\"">> \o delimiter,
                      << Fixed("Quoted bareword", bareword, <<>>) >>)

\* mutant of fix_any_bareword: the quotes are left out of the replacement
fix_any_bareword_noQuotes(match) ==
    LET bareword  == match.g1
        delimiter == match.g2
        converted == try_convert_number_word(bareword)
    IN  IF Lower(bareword) \in ReservedWords THEN Replaced(match.g0, <<>>)
        ELSE IF converted # bareword /\ isdigit(converted)
             THEN Replaced(<<":", " ">> \o converted \o delimiter,
                           << Fixed("Converted number word to digit", bareword,
                                    converted) >>)
             ELSE Replaced(<<":", " ">> \o bareword \o delimiter,
                           << Fixed("Quoted bareword", bareword, <<>>) >>)

fix_any_bareword(match) ==
    LET bareword  == match.g1
        delimiter == match.g2
        converted == try_convert_number_word(bareword)
    IN  IF Lower(bareword) \in ReservedWords THEN Replaced(match.g0, <<>>)
        ELSE IF converted # bareword /\ isdigit(converted)
             THEN Replaced(<<":", " ">> \o converted \o delimiter,
                           << Fixed("Converted number word to digit", bareword,
                                    converted) >>)
             ELSE Replaced(<<":", " ", "\"">> \o bareword \o <<"\"">> \o delimiter,
                           << Fixed("Quoted bareword", bareword, <<>>) >>)

\* mutant of fix_number_unit: the fix is logged, the text is returned as
\* it was matched
fix_number_unit_noQuotes(match) ==
    LET number == match.g1
        unit   == match.g2
    IN  Replaced(match.g0,
                 << Fixed("Quoted number with unit", number \o <<" ">> \o unit, <<>>) >>)

fix_number_unit(match) ==
    LET number == match.g1
        unit   == match.g2
    IN  Replaced(<<":", " ", "\"">> \o number \o <<" ">> \o unit \o <<"\"">> \o match.g3,
                 << Fixed("Quoted number with unit", number \o <<" ">> \o unit, <<>>) >>)

fix_trailing_comma(match) ==
    Replaced(match.g1, << Fixed("Removed trailing comma before", match.g1, <<>>) >>)

\* preprocess.py:81: return f'{{""{key}":'
fix_unquoted_key(match) ==
    LET key == match.g1
    IN  Replaced(<<"{", "\"", "\"">> \o key \o <<"\"", ":">>,
                 << Fixed("Quoted unquoted key", key, <<>>) >>)

fix_bare_number(match) ==
    Replaced(match.g2, << Fixed("Removed bare number in object", match.g1, <<>>) >>)

Match(rule, chars, pos) ==
    CASE rule = "bareword"       -> pattern_bareword(chars, pos)
      [] rule = "number_unit"    -> pattern_number_unit(chars, pos)
      [] rule = "trailing_comma" -> pattern_trailing_comma(chars, pos)
      [] rule = "unquoted_key"   -> pattern_unquoted_key(chars, pos)
      [] rule = "bare_number"    -> pattern_bare_number_in_object(chars, pos)

Fix(rule, match) ==
    CASE rule = "bareword"       -> fix_any_bareword(match)
      [] rule = "number_unit"    -> fix_number_unit(match)
      [] rule = "trailing_comma" -> fix_trailing_comma(match)
      [] rule = "unquoted_key"   -> fix_unquoted_key(match)
      [] rule = "bare_number"    -> fix_bare_number(match)

\* the matches at or after pos
MatchesFrom(rule, chars, pos) ==
    {i \in pos..Len(chars) : Match(rule, chars, i).end # 0}

\* re.search(pattern, text, pos): the leftmost match at or after pos
search(rule, chars, pos) ==
    Match(rule, chars, CHOOSE i \in MatchesFrom(rule, chars, pos) :
                           \A j \in MatchesFrom(rule, chars, pos) : i <= j)

\* the substitution from pos on, done being what is written so far: the
\* text up to the leftmost match is copied, then comes what the replacement
\* function returns for the match, and the scan goes on after the match;
\* the text no match covers is copied
RECURSIVE Substitute(_, _, _, _)
Substitute(rule, chars, pos, done) ==
    IF MatchesFrom(rule, chars, pos) = {}
    THEN Replaced(done.text \o SubSeq(chars, pos, Len(chars)), done.fixes)
    ELSE Substitute(rule, chars, search(rule, chars, pos).end,
                    Replaced(done.text
                                 \o SubSeq(chars, pos, search(rule, chars, pos).end
                                                           - Len(search(rule, chars, pos).g0) - 1)
                                 \o Fix(rule, search(rule, chars, pos)).text,
                             done.fixes \o Fix(rule, search(rule, chars, pos)).fixes))

\* re.sub(pattern, fix, text) from pos on
re_sub(rule, chars, pos) == Substitute(rule, chars, pos, Replaced(<<>>, <<>>))

\* mutant of RuleOrder: stray numbers are removed before trailing commas
RuleOrder_numberFirst ==
    <<"bareword", "number_unit", "bare_number", "unquoted_key", "trailing_comma">>

\* preprocess.py:53, 64, 73, 83, 93: the five re.sub calls, in this order
RuleOrder ==
    <<"bareword", "number_unit", "trailing_comma", "unquoted_key", "bare_number">>

\* the rules from the k-th on, each applied to what the one before returned
RECURSIVE RepairFrom(_, _, _)
RepairFrom(k, text, fixes) ==
    IF k > Len(RuleOrder) THEN Replaced(text, fixes)
    ELSE LET r == re_sub(RuleOrder[k], text, 1)
         IN  RepairFrom(k + 1, r.text, fixes \o r.fixes)

repair_bareword_values(raw) == RepairFrom(1, raw, <<>>)

(***************************************************************************)
(* json.loads of the cleaned text (extract.py:43, preprocess.py:123).      *)
(* A JSON object becomes a dict (a function from its keys), an array a     *)
(* VList of its elements, a scalar a value.  An outcome is [ok, pos, val]: *)
(* pos is the position after what was read.                                *)
(***************************************************************************)
\* a JSON object in a value position
VObj(dict) == [t |-> "obj", s |-> <<>>, m |-> 0, e |-> 0, items |-> dict]

\* float('nan'), float('inf'), float('-inf')
VNonFinite(chars) == [t |-> "num", s |-> chars, m |-> 0, e |-> 0, items |-> <<>>]

\* the Python object an element of a list or the top-level value is
Unwrap(v) == IF v.t = "obj" THEN v.items ELSE v

\* the str a sequence of characters is
RECURSIVE Join(_)
Join(chars) == IF chars = <<>> THEN "" ELSE Head(chars) \o Join(Tail(chars))

RECURSIVE Pow10(_)
Pow10(n) == IF n = 0 THEN 1 ELSE 10 * Pow10(n - 1)

ParseOk(pos, val) == [ok |-> TRUE, pos |-> pos, val |-> val]

ParseFail == [ok |-> FALSE, pos |-> 0, val |-> VNull]

StartsWith(chars, pos, word) ==
    /\ pos + Len(word) - 1 <= Len(chars)
    /\ SubSeq(chars, pos, pos + Len(word) - 1) = word

Escapes == <<
    [c |-> "\"", is |-> "\""], [c |-> "\\", is |-> "\\"], [c |-> "/", is |-> "/"],
    [c |-> "n", is |-> "\n"], [c |-> "t", is |-> "\t"], [c |-> "r", is |-> "\r"] >>

\* the characters of a string literal whose opening quote is before pos
RECURSIVE JsonStringBody(_, _, _)
JsonStringBody(chars, pos, acc) ==
    IF pos > Len(chars) THEN ParseFail                       \* unterminated
    ELSE IF chars[pos] = "\"" THEN ParseOk(pos + 1, VStr(acc))
    ELSE IF chars[pos] \in {"\n", "\t", "\r"} THEN ParseFail  \* control character
    ELSE IF chars[pos] = "\\"
         THEN IF pos < Len(chars) /\ \E i \in DOMAIN Escapes : Escapes[i].c = chars[pos + 1]
              THEN JsonStringBody(chars, pos + 2,
                       Append(acc, Escapes[CHOOSE i \in DOMAIN Escapes :
                                               Escapes[i].c = chars[pos + 1]].is))
              ELSE ParseFail
         ELSE JsonStringBody(chars, pos + 1, Append(acc, chars[pos]))

\* (-?(?:0|[1-9]\d*))(\.\d+)?([eE][-+]?\d+)? at pos.  The integer part is
\* a..b-1, the fraction goes up to c (c = b: none), the exponent's digits
\* are x..d-1 (d = c: no exponent); the value is mant * 10^(-frac) * 10^(+-ex).
JsonNumber(chars, pos) ==
    LET Decimal(neg, mant, frac, ex, exneg) ==
            IF exneg THEN VNum(IF neg THEN 0 - mant ELSE mant, frac + ex)
            ELSE IF ex <= frac THEN VNum(IF neg THEN 0 - mant ELSE mant, frac - ex)
            ELSE VNum(IF neg THEN 0 - mant * Pow10(ex - frac)
                             ELSE mant * Pow10(ex - frac), 0)
        Number(a, b, c, x, d) ==
            ParseOk(d, Decimal(chars[pos] = "-",
                               DigitsToInt(SubSeq(chars, a, c - 1), 0),
                               IF c > b THEN c - b - 1 ELSE 0,
                               IF d > c THEN DigitsToInt(SubSeq(chars, x, d - 1), 0) ELSE 0,
                               d > c /\ chars[c + 1] = "-"))
        ExponentDigits(a, b, c, x) ==
            Number(a, b, c, x,
                   IF x > c /\ At(chars, x, "\\d") THEN Span(chars, x, "\\d") ELSE c)
        Exponent(a, b, c) ==
            ExponentDigits(a, b, c,
                           IF c <= Len(chars) /\ chars[c] \in {"e", "E"}
                           THEN IF c < Len(chars) /\ chars[c + 1] \in {"+", "-"}
                                THEN c + 2 ELSE c + 1
                           ELSE c)
        Fraction(a, b) ==
            Exponent(a, b,
                     IF b <= Len(chars) /\ chars[b] = "." /\ At(chars, b + 1, "\\d")
                     THEN Span(chars, b + 1, "\\d")
                     ELSE b)
        Integer(a) ==
            IF ~At(chars, a, "\\d") THEN ParseFail
            ELSE Fraction(a, IF chars[a] = "0" THEN a + 1 ELSE Span(chars, a, "\\d"))
    IN  Integer(IF pos <= Len(chars) /\ chars[pos] = "-" THEN pos + 1 ELSE pos)

\* the value of the last pair with this key
DictOf(pairs) ==
    LET keys == {Join(pairs[i].key) : i \in DOMAIN pairs}
        Last(k) == CHOOSE i \in DOMAIN pairs :
                       /\ Join(pairs[i].key) = k
                       /\ \A j \in DOMAIN pairs : Join(pairs[j].key) = k => j <= i
    IN  [k \in keys |-> pairs[Last(k)].val]

\* a string, number or literal at pos
JsonScalar(chars, pos) ==
    IF chars[pos] = "\"" THEN JsonStringBody(chars, pos + 1, <<>>)
    ELSE IF StartsWith(chars, pos, Chars("null")) THEN ParseOk(pos + 4, VNull)
    ELSE IF StartsWith(chars, pos, Chars("true")) THEN ParseOk(pos + 4, VBool(TRUE))
    ELSE IF StartsWith(chars, pos, Chars("false")) THEN ParseOk(pos + 5, VBool(FALSE))
    ELSE IF StartsWith(chars, pos, Chars("NaN"))
         THEN ParseOk(pos + 3, VNonFinite(Chars("NaN")))
    ELSE IF StartsWith(chars, pos, Chars("Infinity"))
         THEN ParseOk(pos + 8, VNonFinite(Chars("Infinity")))
    ELSE IF StartsWith(chars, pos, Chars("-Infinity"))
         THEN ParseOk(pos + 9, VNonFinite(Chars("-Infinity")))
    ELSE JsonNumber(chars, pos)

\* an array or object that is being read: the elements or pairs read so
\* far, and the key whose value comes next
Frame(kind) == [kind |-> kind, items |-> <<>>, pairs |-> <<>>, key |-> <<>>]

\* the stack with one more value in its innermost frame
Filled(stack, val) ==
    IF stack[Len(stack)].kind = "list"
    THEN [stack EXCEPT ![Len(stack)].items = Append(@, Unwrap(val))]
    ELSE [stack EXCEPT ![Len(stack)].pairs =
                           Append(@, [key |-> stack[Len(stack)].key, val |-> val])]

\* the decoder, from pos on, inside the arrays and objects of stack
\* (innermost last).  expect says what comes next: "value"; "key", a key
\* and its colon; "read", val was read up to pos; "next", a comma or the
\* end of the innermost array or object.
RECURSIVE JsonValue(_, _, _, _, _)
JsonValue(chars, pos, stack, expect, val) ==
    LET a == Span(chars, pos, "\\s")
    IN  IF expect = "read"
        THEN IF stack = <<>> THEN ParseOk(pos, val)
             ELSE JsonValue(chars, pos, Filled(stack, val), "next", VNull)
        ELSE IF a > Len(chars) THEN ParseFail
        ELSE IF expect = "value"
             THEN IF chars[a] \in {"{", "["}
                  THEN LET kind  == IF chars[a] = "{" THEN "obj" ELSE "list"
                           close == IF chars[a] = "{" THEN "}" ELSE "]"
                           b     == Span(chars, a + 1, "\\s")
                       IN  IF b <= Len(chars) /\ chars[b] = close
                           THEN JsonValue(chars, b + 1, stack, "read",
                                          IF kind = "obj" THEN VObj(<<>>) ELSE VList(<<>>))
                           ELSE JsonValue(chars, b, Append(stack, Frame(kind)),
                                          IF kind = "obj" THEN "key" ELSE "value", VNull)
                  ELSE LET v == JsonScalar(chars, a)
                       IN  IF ~v.ok THEN ParseFail
                           ELSE JsonValue(chars, v.pos, stack, "read", v.val)
        ELSE IF expect = "key"
             THEN IF chars[a] # "\"" THEN ParseFail
                  ELSE LET k == JsonStringBody(chars, a + 1, <<>>)
                           b == Span(chars, k.pos, "\\s")
                       IN  IF ~k.ok \/ b > Len(chars) \/ chars[b] # ":" THEN ParseFail
                           ELSE JsonValue(chars, b + 1,
                                          [stack EXCEPT ![Len(stack)].key = k.val.s],
                                          "value", VNull)
        ELSE LET frame == stack[Len(stack)]                        \* "next"
             IN  IF chars[a] = ","
                 THEN JsonValue(chars, a + 1, stack,
                                IF frame.kind = "obj" THEN "key" ELSE "value", VNull)
                 ELSE IF frame.kind = "list" /\ chars[a] = "]"
                      THEN JsonValue(chars, a + 1, SubSeq(stack, 1, Len(stack) - 1),
                                     "read", VList(frame.items))
                 ELSE IF frame.kind = "obj" /\ chars[a] = "}"
                      THEN JsonValue(chars, a + 1, SubSeq(stack, 1, Len(stack) - 1),
                                     "read", VObj(DictOf(frame.pairs)))
                 ELSE ParseFail

\* json.loads(text): one value between optional whitespace, nothing after
\* it; ok = FALSE stands for the JSONDecodeError
json_loads(chars) ==
    LET v == JsonValue(chars, 1, <<>>, "value", VNull)
    IN  IF v.ok /\ Span(chars, v.pos, "\\s") > Len(chars)
        THEN [ok |-> TRUE, val |-> v.val]
        ELSE [ok |-> FALSE, val |-> VNull]

(***************************************************************************)
(* Bounds and inputs                                                       *)
(***************************************************************************)
\* longest parsed array of records
MaxRecords == 3

\* largest max_records / MAX_RECORDS setting
MaxCap == 2

\* longest generated text of a numeric field
MaxStrLen == 2

Without(raw, keys) == [k \in DOMAIN raw \ keys |-> raw[k]]

BaseRecord(title) ==
    [Property_Title |-> VStr(title),
     Address        |-> VStr(<<"1", " ", "M", "a", "i", "n">>),
     Street_Address |-> VStr(<<"1", " ", "M", "a", "i", "n">>),
     City           |-> VStr(<<"D", "a", "l", "l", "a", "s">>),
     State          |-> VStr(<<"T", "X">>),
     Zip            |-> VStr(<<"7", "5", "0", "0", "1">>),
     Latitude       |-> VNum(327, 1),
     Longitude      |-> VNum(0 - 968, 1),
     Property_Type  |-> VStr(<<"S", "F", "R">>)]

RecordA ==
    [Valuation  |-> VList(<< [List_Price |-> VNum(100, 0)],
                             [List_Price |-> VNum(200, 0),
                              ARV |-> VStr(<<"3", "0", "0">>)] >>),
     HOA        |-> VList(<< [HOA |-> VNum(50, 0),
                              HOA_Flag |-> VStr(<<" ", "N", "o">>)] >>),
     SQFT_Total |-> VStr(<<"5", "6", "4", "9", " ", "s", "q", "f", "t">>),
     Pool       |-> VStr(<<"y", "e", "s">>),
     Market     |-> VStr(<<"D">>)]
    @@ BaseRecord(<<"A">>)

RecordB ==
    [Rehab  |-> VList(<< [Paint |-> VStr(<<"o", "k">>),
                          Roof_Flag |-> VStr(<<"Y", "E", "S">>)],
                         [Underwriting_Rehab |-> VNum(5, 0),
                          Roof_Flag |-> VStr(<<"o", "l", "d">>)] >>),
     HOA    |-> VList(<<>>),
     Market |-> VStr(<<>>),
     Layout |-> VStr(<<"F">>)]
    @@ BaseRecord(<<"B">>)

RecordBad ==
    [Valuation |-> VList(<< [List_Price |-> VNum(7, 0)] >>)]
    @@ Without(BaseRecord(<<"C">>), {"Property_Type"})

Palette == {RecordA, RecordB, RecordBad}

RecordLists == UNION {[1..n -> Palette] : n \in 0..MaxRecords}

\* an optional int argument: None, or an int
None == [set |-> FALSE, n |-> 0]

Some(n) == [set |-> TRUE, n |-> n]

(***************************************************************************)
(* State                                                                   *)
(***************************************************************************)
VARIABLES
    entry,            \* who calls load_properties_from_json: "run_etl" or "direct"
    file_exists,      \* json_file_path.exists()
    parses,           \* json.loads(cleaned_json_str) succeeds
    parsed,           \* its result: [is_list, records]
    MAX_RECORDS,      \* ETLConfig.MAX_RECORDS
    max_records,      \* the argument of load_properties_from_json
    skip_invalid,     \* the argument / ETLConfig.SKIP_INVALID
    pc,               \* where the run is
    raw_data,         \* the records to validate
    idx,              \* enumerate(raw_data, 1): the last index handled
    valid_properties,
    invalid_records,
    validated,        \* the indexes Property.model_validate was called on
    error,            \* the exception raised, "" when none
    facts,
    dimensions,
    db_log,           \* what load_to_database did
    calls,            \* the stages run_etl called, in order
    result,           \* what run_etl returned: "", "True", "False"
    raw_json_str,     \* the text of the file, where the run starts from it
    repaired,         \* repair_bareword_values: the text so far
    fixes,            \* repair_bareword_values: the fixes logged so far
    rule              \* the next rule of RuleOrder to apply, 0: no text

vars == <<entry, file_exists, parses, parsed, MAX_RECORDS, max_records,
          skip_invalid, pc, raw_data, idx, valid_properties, invalid_records,
          validated, error, facts, dimensions, db_log, calls, result,
          raw_json_str, repaired, fixes, rule>>

\* the text and its repair: untouched once the cleaned text is parsed
repair_state == <<raw_json_str, repaired, fixes, rule>>

\* what the handling of the records does not change
inputs == <<entry, file_exists, parses, parsed, MAX_RECORDS, skip_invalid,
            repair_state>>

\* the run starts from the parsed value, the text is left out
NoText ==
    /\ raw_json_str = <<>>
    /\ repaired = <<>>
    /\ fixes = <<>>
    /\ rule = 0

\* the state of a run before its first step
Fresh ==
    /\ raw_data = <<>>
    /\ idx = 0
    /\ valid_properties = <<>>
    /\ invalid_records = <<>>
    /\ validated = <<>>
    /\ error = ""
    /\ facts = EmptyFacts
    /\ dimensions = EmptyDimensions
    /\ db_log = <<>>
    /\ calls = <<>>
    /\ result = ""

\* the file: missing, unparseable after repair, one object, or an array
FileInputs ==
    /\ \/ /\ file_exists = FALSE
          /\ parses = FALSE
          /\ parsed = [is_list |-> TRUE, records |-> <<>>]
       \/ /\ file_exists = TRUE
          /\ parses = FALSE
          /\ parsed = [is_list |-> TRUE, records |-> <<>>]
       \/ /\ file_exists = TRUE
          /\ parses = TRUE
          /\ \/ \E rs \in RecordLists : parsed = [is_list |-> TRUE, records |-> rs]
             \/ \E r \in Palette : parsed = [is_list |-> FALSE, records |-> <<r>>]

Init ==
    /\ FileInputs
    /\ skip_invalid \in BOOLEAN
    /\ \/ /\ entry = "run_etl"
          /\ MAX_RECORDS \in 0..MaxCap
          /\ max_records = None
          /\ pc = "start"
       \/ /\ entry = "direct"
          /\ MAX_RECORDS = 0
          /\ max_records \in {None} \cup {Some(n) : n \in 0..MaxCap}
          /\ pc = "extract"
    /\ Fresh
    /\ NoText

(***************************************************************************)
(* run_etl, up to the call of load_properties_from_json                    *)
(***************************************************************************)
\* run_etl.py:53: max_records = MAX_RECORDS if MAX_RECORDS > 0 else None
ConfiguredMaxRecords(n) == IF n > 0 THEN Some(n) ELSE None

RunEtlExtract ==
    /\ pc = "start"
    /\ max_records' = ConfiguredMaxRecords(MAX_RECORDS)
    /\ calls' = Append(calls, "extract")
    /\ pc' = "extract"
    /\ UNCHANGED <<inputs, raw_data, idx, valid_properties, invalid_records,
                   validated, error, facts, dimensions, db_log, result>>

(***************************************************************************)
(* load_properties_from_json                                               *)
(***************************************************************************)
\* extract.py:48-49: a parsed value that is no list is wrapped in one
AsList(p) == IF p.is_list THEN p.records ELSE << p.records[1] >>

\* mutant of Truncate: the test is "max_records is not None", so 0 keeps nothing
Truncate_zeroKeepsNothing(records, mr) ==
    IF mr.set
    THEN SubSeq(records, 1, IF mr.n < Len(records) THEN mr.n ELSE Len(records))
    ELSE records

\* extract.py:52-53: "if max_records:" then raw_data[:max_records]
Truncate(records, mr) ==
    IF mr.set /\ mr.n # 0
    THEN IF mr.n >= 0
         THEN SubSeq(records, 1, IF mr.n < Len(records) THEN mr.n ELSE Len(records))
         ELSE SubSeq(records, 1, IF Len(records) + mr.n > 0 THEN Len(records) + mr.n ELSE 0)
    ELSE records

\* mutant of ParseError: the JSONDecodeError is logged and not re-raised
ParseError_swallowed(exists, ok) ==
    IF ~exists THEN "FileNotFoundError" ELSE ""

\* extract.py:23-24 and 42-46: the exception raised before any record is
\* looked at, "" when the file exists and the cleaned text parses
ParseError(exists, ok) ==
    IF ~exists THEN "FileNotFoundError"
    ELSE IF ~ok THEN "JSONDecodeError"
    ELSE ""

\* extract.py:21-56: existence check, preprocessing, parsing, truncation
LoadAndParse ==
    /\ pc = "extract"
    /\ IF ParseError(file_exists, parses) # ""
       THEN /\ error' = ParseError(file_exists, parses)
            /\ pc' = "raised"
            /\ UNCHANGED raw_data
       ELSE /\ raw_data' = Truncate(AsList(parsed), max_records)
            /\ pc' = "loop"
            /\ UNCHANGED error
    /\ UNCHANGED <<inputs, max_records, idx, valid_properties, invalid_records,
                   validated, facts, dimensions, db_log, calls, result>>

FailureEntry(i, raw_record, errors) ==
    [record_index |-> i, raw_record |-> raw_record, errors |-> errors]

\* mutant of KeepValid: the new Property is put in front
KeepValid_inFront(properties, property) == <<property>> \o properties

\* what the loop does with a record that validated
KeepValid(properties, property) == Append(properties, property)

\* what the loop does with a record that failed
KeepInvalid(failures, i, raw_record, errors) ==
    Append(failures, FailureEntry(i, raw_record, errors))

\* mutant of RaisesOnInvalid: the flag is ignored, every failure is raised
RaisesOnInvalid_always(skip) == TRUE

\* mutant of RaisesOnInvalid: the flag is ignored, no failure is raised
RaisesOnInvalid_never(skip) == FALSE

\* extract.py:74-75: the ValidationError is re-raised unless skip_invalid
RaisesOnInvalid(skip) == ~skip

\* extract.py:58-75: one iteration of the loop over enumerate(raw_data, 1)
ValidateRecord ==
    /\ pc = "loop"
    /\ idx < Len(raw_data)
    /\ LET i == idx + 1
           errors == validation_errors(raw_data[i])
       IN  /\ idx' = i
           /\ validated' = Append(validated, i)
           /\ IF errors = <<>>
              THEN /\ valid_properties' =
                          KeepValid(valid_properties, validated_model(raw_data[i]))
                   /\ UNCHANGED <<invalid_records, error, pc>>
              ELSE /\ invalid_records' =
                          KeepInvalid(invalid_records, i, raw_data[i], errors)
                   /\ UNCHANGED valid_properties
                   /\ IF RaisesOnInvalid(skip_invalid)
                      THEN error' = "ValidationError" /\ pc' = "raised"
                      ELSE UNCHANGED <<error, pc>>
    /\ UNCHANGED <<inputs, max_records, raw_data, facts, dimensions, db_log,
                   calls, result>>

\* extract.py:77-79: the loop is over, both lists are returned
ReturnLists ==
    /\ pc = "loop"
    /\ idx = Len(raw_data)
    /\ pc' = "returned"
    /\ UNCHANGED <<inputs, max_records, raw_data, idx, valid_properties,
                   invalid_records, validated, error, facts, dimensions,
                   db_log, calls, result>>

(***************************************************************************)
(* run_etl, after load_properties_from_json                                *)
(***************************************************************************)
\* run_etl.py:123-125: except Exception -> return False
RunEtlExcept ==
    /\ entry = "run_etl"
    /\ pc = "raised"
    /\ result' = "False"
    /\ pc' = "done"
    /\ UNCHANGED <<inputs, max_records, raw_data, idx, valid_properties,
                   invalid_records, validated, error, facts, dimensions,
                   db_log, calls>>

\* mutant of RunEtlNoValid: the emptiness test is missing, the run goes on to
\* the transform and load stages with no Property
RunEtlNoValid_goesOn ==
    /\ entry = "run_etl"
    /\ pc = "returned"
    /\ valid_properties = <<>>
    /\ facts' = transform_properties_to_facts(valid_properties)
    /\ dimensions' = extract_dimension_values(facts')
    /\ calls' = Append(calls, "transform")
    /\ pc' = "load"
    /\ UNCHANGED <<inputs, max_records, raw_data, idx, valid_properties,
                   invalid_records, validated, error, db_log, result>>

\* run_etl.py:69-71: no valid properties -> return False
RunEtlNoValid ==
    /\ entry = "run_etl"
    /\ pc = "returned"
    /\ valid_properties = <<>>
    /\ result' = "False"
    /\ pc' = "done"
    /\ UNCHANGED <<inputs, max_records, raw_data, idx, valid_properties,
                   invalid_records, validated, error, facts, dimensions,
                   db_log, calls>>

\* run_etl.py:78 / transform.py:156-160: transform_properties
RunEtlTransform ==
    /\ entry = "run_etl"
    /\ pc = "returned"
    /\ valid_properties # <<>>
    /\ facts' = transform_properties_to_facts(valid_properties)
    /\ dimensions' = extract_dimension_values(facts')
    /\ calls' = Append(calls, "transform")
    /\ pc' = "load"
    /\ UNCHANGED <<inputs, max_records, raw_data, idx, valid_properties,
                   invalid_records, validated, error, db_log, result>>

\* run_etl.py:97-121: load_to_database, then return True; a MySQLError is
\* caught by the except clause and run_etl returns False
RunEtlLoad ==
    /\ entry = "run_etl"
    /\ pc = "load"
    /\ \E fail_at \in LoadFailures(facts) :
          /\ db_log' = load_to_database(facts, fail_at)
          /\ error' = IF fail_at = "none" THEN "" ELSE "MySQLError"
          /\ result' = IF fail_at = "none" THEN "True" ELSE "False"
    /\ calls' = Append(calls, "load")
    /\ pc' = "done"
    /\ UNCHANGED <<inputs, max_records, raw_data, idx, valid_properties,
                   invalid_records, validated, facts, dimensions>>

Next ==
    \/ RunEtlExtract
    \/ LoadAndParse
    \/ ValidateRecord
    \/ ReturnLists
    \/ RunEtlExcept
    \/ RunEtlNoValid
    \/ RunEtlTransform
    \/ RunEtlLoad

Spec == Init /\ [][Next]_vars

(***************************************************************************)
(* Validation of one record: the inputs are a base record with some        *)
(* required fields removed, or with one flag field or one numeric field    *)
(* (of the Property or of a nested record) set to a probe value.           *)
(***************************************************************************)
RequiredAliases ==
    {PropertyFields[i].alias : i \in {j \in DOMAIN PropertyFields : PropertyFields[j].required}}

IsFlagField(f) ==
    f.before \in {"validate_flag", "normalize_flags", "normalize_yes_no_flags"}

IsNumericField(f) == f.type \in {"float", "int"}

FlagTexts ==
    { <<"y", "e", "s">>, <<"Y", "E", "S">>, <<"Y", "e", "s">>, <<"n", "o">>,
      <<"N", "O">>, <<" ", "N", "o", " ">>, <<"\t", "y", "e", "s", "\n">>,
      <<>>, <<" ">>, <<"m", "a", "y", "b", "e">>, <<"Y">>, <<"y", "e", "s", "!">>,
      <<"n", " ", "o">> }

FlagProbes ==
    {VStr(x) : x \in FlagTexts} \cup {VNull, VNum(1, 0), VNum(5, 1), VBool(TRUE), VBool(FALSE)}

NumAlphabet == {"5", ".", "s", " "}

NumTexts ==
    UNION {[1..k -> NumAlphabet] : k \in 0..MaxStrLen}
    \cup { <<"5", "6", "4", "9", " ", "s", "q", "f", "t">>,
           <<"$", "1", ",", "2", "0", "0">>,
           <<"1", ".", "2", ".", "3">>,
           <<"1", "2", ".", "5", "0">> }

NumProbes ==
    {VStr(x) : x \in NumTexts} \cup {VNull, VNum(5649, 0), VNum(125, 1), VNum(0 - 3, 0)}

\* the base record with the scalar field of alias a set to v
WithField(a, v) == [k \in {a} |-> v] @@ BaseRecord(<<"P">>)

\* the base record with one nested record holding the field of alias a
WithChildField(c, a, v) ==
    [k \in {c.alias} |-> VList(<< [j \in {a} |-> v] >>)] @@ BaseRecord(<<"P">>)

\* the fields of a kind: "flag" or "numeric"
Probed(kind, f) == IF kind = "flag" THEN IsFlagField(f) ELSE IsNumericField(f)

ProbeRecords(kind, probes) ==
    {WithField(PropertyFields[i].alias, v) :
        i \in {j \in DOMAIN PropertyFields : Probed(kind, PropertyFields[j])}, v \in probes}
    \cup UNION {
        {WithChildField(PropertyChildLists[c], PropertyChildLists[c].fields[i].alias, v) :
            i \in {j \in DOMAIN PropertyChildLists[c].fields :
                      Probed(kind, PropertyChildLists[c].fields[j])},
            v \in probes} : c \in DOMAIN PropertyChildLists}

MissingRecords == {Without(BaseRecord(<<"P">>), S) : S \in SUBSET RequiredAliases}

ValidateInputs ==
    MissingRecords \cup ProbeRecords("flag", FlagProbes)
                   \cup ProbeRecords("numeric", NumProbes)

InitValidate ==
    /\ entry = "direct"
    /\ file_exists = TRUE
    /\ parses = TRUE
    /\ \E r \in ValidateInputs : parsed = [is_list |-> TRUE, records |-> <<r>>]
    /\ MAX_RECORDS = 0
    /\ max_records = None
    /\ skip_invalid = TRUE
    /\ pc = "extract"
    /\ Fresh
    /\ NoText

NextValidate ==
    \/ LoadAndParse
    \/ ValidateRecord
    \/ ReturnLists

SpecValidate == InitValidate /\ [][NextValidate]_vars

(***************************************************************************)
(* Repair of a text, then its parsing and the validation of its records:   *)
(* the inputs are every text of a few tokens and documents of one record   *)
(* in which one value is written the way a rule repairs.                   *)
(***************************************************************************)
\* longest generated text, in tokens
MaxTokens == 3

Tokens == <<"{", "}", "[", "]", ",", ":", " ", "\"", "k", "Hi", "1">>

RECURSIVE Flatten(_)
Flatten(ts) == IF ts = <<>> THEN <<>> ELSE Chars(Tokens[Head(ts)]) \o Flatten(Tail(ts))

TokenTexts ==
    {Flatten(ts) : ts \in UNION {[1..n -> DOMAIN Tokens] : n \in 0..MaxTokens}}

\* one "key": value of a document; pre and post are the whitespace around
\* the value text
Field(key, pre, val, post) == [key |-> key, pre |-> pre, val |-> val, post |-> post]

Quoted(chars) == <<"\"">> \o chars \o <<"\"">>

RECURSIVE RenderFields(_, _)
RenderFields(fields, i) ==
    IF i > Len(fields) THEN <<>>
    ELSE Quoted(Chars(fields[i].key)) \o <<":">>
         \o fields[i].pre \o fields[i].val \o fields[i].post
         \o (IF i = Len(fields) THEN <<>> ELSE <<",", " ">> \o RenderFields(fields, i + 1))

\* the text of an array of one record
Document(fields) == <<"[", "{">> \o RenderFields(fields, 1) \o <<"}", "]">>

BaseFields == <<
    Field("Property_Title", <<" ">>, Quoted(Chars("A")), <<>>),
    Field("Address", <<" ">>, Quoted(Chars("1 Main St")), <<>>),
    Field("Street_Address", <<" ">>, Quoted(Chars("1 Main St")), <<>>),
    Field("City", <<" ">>, Quoted(Chars("Dallas")), <<>>),
    Field("State", <<" ">>, Quoted(Chars("TX")), <<>>),
    Field("Zip", <<" ">>, Quoted(Chars("75001")), <<>>),
    Field("Latitude", <<" ">>, Chars("32.7"), <<>>),
    Field("Longitude", <<" ">>, Chars("-96.8"), <<>>),
    Field("Property_Type", <<" ">>, Quoted(Chars("SFR")), <<>>) >>

\* the base record with field f: in second place (a comma follows the
\* value) or last (the closing brace follows it)
FieldsWith(f, place) ==
    LET others == SelectSeq(BaseFields, LAMBDA b : b.key # f.key)
    IN  IF place = "mid"
        THEN <<others[1], f>> \o SubSeq(others, 2, Len(others))
        ELSE Append(others, f)

Places == {"mid", "last"}

Spacings == {<<>>, <<" ">>}

\* a capitalized bareword as the value of a field
BarewordValues == {
    [key |-> "City", word |-> Chars("Springfield")],
    [key |-> "City", word |-> Chars("NY")],
    [key |-> "Bed",  word |-> Chars("Five")],
    [key |-> "Bed",  word |-> Chars("TEN")],
    [key |-> "Pool", word |-> Chars("Yes")],
    [key |-> "Pool", word |-> Chars("True")],
    [key |-> "Pool", word |-> Chars("FALSE")],
    [key |-> "Pool", word |-> Chars("Null")] }

BarewordDocs ==
    {[key |-> v.key, word |-> v.word, pre |-> pre, post |-> post, place |-> place,
      text |-> Document(FieldsWith(Field(v.key, pre, v.word, post), place))] :
        v \in BarewordValues, pre \in Spacings, post \in Spacings, place \in Places}

\* a number with a unit as the value of SQFT_Total
UnitNumbers == {[text |-> Chars("5649"), float |-> VNum(5649, 0)],
                [text |-> Chars("12.5"), float |-> VNum(125, 1)]}

NumberUnitDocs ==
    {[number |-> n.text, float |-> n.float, unit |-> u, place |-> place,
      text |-> Document(FieldsWith(
                  Field("SQFT_Total", pre, n.text \o gap \o u, post), place))] :
        n \in UnitNumbers, u \in {Chars("sqft"), Chars("sf")},
        gap \in {<<" ">>, <<" ", " ">>}, pre \in Spacings,
        post \in Spacings, place \in Places}

\* texts in which more than one rule has something to do, or a rule meets
\* a quoted string or an array
SampleTexts == {
    Chars("[1, 2, 3]"),
    Chars("{\"a\": [1, 2, 3]}"),
    Chars("{\"a\": 1, 2}"),
    Chars("{\"a\": 1, 2, \"b\": 3}"),
    Chars("{key: 1}"),
    Chars("{ City : \"x\", b: 2}"),
    Chars("{k: 1,,2}"),
    Chars("{\"a\":1,,2}"),
    Chars(",1,2,3}"),
    Chars("{\"a\": 1,2,}"),
    Chars("{\"a\": \"x: Hello, y\"}"),
    Chars("{\"a\": \"1, }\"}"),
    Chars("{\"a\": \"{b: c\"}"),
    Chars("{\"a\": \"x\", \"b\": [true, null]}"),
    Chars("{\"a\": Hi, \"b\": 5 sqft, c: 1,}") }

RepairTexts ==
    TokenTexts \cup SampleTexts
    \cup {d.text : d \in BarewordDocs} \cup {d.text : d \in NumberUnitDocs}

InitRepair ==
    /\ entry = "direct"
    /\ file_exists = TRUE
    /\ parses = FALSE
    /\ parsed = [is_list |-> TRUE, records |-> <<>>]
    /\ MAX_RECORDS = 0
    /\ max_records = None
    /\ skip_invalid = TRUE
    /\ pc = "repair"
    /\ Fresh
    /\ raw_json_str \in RepairTexts
    /\ repaired = raw_json_str
    /\ fixes = <<>>
    /\ rule = 1

\* preprocess.py:53-93: one re.sub call of repair_bareword_values
RepairRule ==
    /\ pc = "repair"
    /\ rule <= Len(RuleOrder)
    /\ LET r == re_sub(RuleOrder[rule], repaired, 1)
       IN  /\ repaired' = r.text
           /\ fixes' = fixes \o r.fixes
    /\ rule' = rule + 1
    /\ UNCHANGED <<entry, file_exists, parses, parsed, MAX_RECORDS, skip_invalid,
                   raw_json_str, max_records, pc, raw_data, idx, valid_properties,
                   invalid_records, validated, error, facts, dimensions, db_log,
                   calls, result>>

\* extract.py:43: json.loads(cleaned_json_str); what it gives, or that it
\* raises, is what LoadAndParse goes on with
JsonLoads ==
    /\ pc = "repair"
    /\ rule > Len(RuleOrder)
    /\ LET loaded == json_loads(repaired)
       IN  /\ parses' = loaded.ok
           /\ parsed' = IF ~loaded.ok THEN [is_list |-> TRUE, records |-> <<>>]
                        ELSE IF loaded.val.t = "list"
                             THEN [is_list |-> TRUE, records |-> loaded.val.items]
                             ELSE [is_list |-> FALSE, records |-> <<Unwrap(loaded.val)>>]
    /\ pc' = "extract"
    /\ UNCHANGED <<entry, file_exists, MAX_RECORDS, skip_invalid, repair_state,
                   max_records, raw_data, idx, valid_properties, invalid_records,
                   validated, error, facts, dimensions, db_log, calls, result>>

NextRepair ==
    \/ RepairRule
    \/ JsonLoads
    \/ LoadAndParse
    \/ ValidateRecord
    \/ ReturnLists

SpecRepair == InitRepair /\ [][NextRepair]_vars

(***************************************************************************)
(* Properties                                                              *)
(***************************************************************************)
Transformed == \E i \in DOMAIN calls : calls[i] = "transform"

ExtractErrors == {"FileNotFoundError", "JSONDecodeError", "ValidationError"}

\* load_properties_from_json has returned its two lists
ExtractReturned ==
    pc \in {"returned", "load"} \/ (pc = "done" /\ error \notin ExtractErrors)

\* the three kinds of child rows: row set, child list, index column
ChildKinds == <<
    [rows |-> "valuations", list |-> "valuation", index_key |-> "valuation_index",
     fields |-> ValuationRecordFields],
    [rows |-> "hoa_fees", list |-> "hoa", index_key |-> "hoa_index",
     fields |-> HOARecordFields],
    [rows |-> "rehab_assessments", list |-> "rehab", index_key |-> "rehab_index",
     fields |-> RehabRecordFields] >>

RowsOf(kind, property_id) ==
    {i \in DOMAIN facts[kind.rows] : facts[kind.rows][i]["property_id"] = property_id}

\* C1: after transform_properties_to_facts every child row's property_id is
\* the 1-based position of a properties row, and each property_id has as
\* many child rows of a kind as the source Property has children of it.
C1_ReferentialIntegrity ==
    Transformed =>
        \A c \in DOMAIN ChildKinds :
            LET kind == ChildKinds[c]
            IN  /\ \A i \in DOMAIN facts[kind.rows] :
                       facts[kind.rows][i]["property_id"] \in 1..Len(facts.properties)
                /\ \A p \in DOMAIN valid_properties :
                       Cardinality(RowsOf(kind, p)) =
                           Len(valid_properties[p][kind.list].items)

C1_Witness ==
    /\ Transformed
    /\ Len(facts.properties) >= 2
    /\ \E p, q \in DOMAIN valid_properties :
           /\ Len(valid_properties[p]["valuation"].items) = 2
           /\ Len(valid_properties[q]["valuation"].items) = 0
           /\ Len(valid_properties[q]["rehab"].items) = 2

\* C2: one properties row per input Property in input order; the children
\* of the i-th Property carry property_id i, stand in their child-list
\* order with <entity>_index 1..k, and a Property without children of a
\* kind has no row of it.
C2_RowsInOrder ==
    Transformed =>
        /\ Len(facts.properties) = Len(valid_properties)
        /\ \A i \in DOMAIN facts.properties :
               \A k \in DOMAIN facts.properties[i] :
                   facts.properties[i][k] = valid_properties[i][k]
        /\ \A c \in DOMAIN ChildKinds :
               LET kind == ChildKinds[c]
                   rows == facts[kind.rows]
               IN  /\ \A pos \in DOMAIN rows :
                          LET p == rows[pos]["property_id"]
                              j == rows[pos][kind.index_key]
                          IN  /\ p \in DOMAIN valid_properties
                              /\ j \in DOMAIN valid_properties[p][kind.list].items
                              /\ \A k \in FieldNames(kind.fields) :
                                     rows[pos][k] =
                                         valid_properties[p][kind.list].items[j][k]
                              /\ IF pos = 1 THEN j = 1
                                 ELSE \/ /\ rows[pos - 1]["property_id"] = p
                                         /\ rows[pos - 1][kind.index_key] = j - 1
                                      \/ /\ rows[pos - 1]["property_id"] < p
                                         /\ j = 1
                   /\ \A p \in DOMAIN valid_properties :
                          Cardinality(RowsOf(kind, p)) =
                              Len(valid_properties[p][kind.list].items)

C2_Witness ==
    /\ Transformed
    /\ Len(facts.properties) = 3
    /\ facts.properties[1] # facts.properties[2]
    /\ Len(facts.valuations) >= 4
    /\ \E p \in DOMAIN valid_properties :
           /\ Len(valid_properties[p]["hoa"].items) = 0
           /\ RowsOf(ChildKinds[2], p) = {}
           /\ RowsOf(ChildKinds[3], p) # {}

\* the indexes 1..n of the records of raw_data that validate, in order
RECURSIVE ValidIndexes(_)
ValidIndexes(n) ==
    IF n = 0 THEN <<>>
    ELSE IF validation_errors(raw_data[n]) = <<>>
         THEN Append(ValidIndexes(n - 1), n)
         ELSE ValidIndexes(n - 1)

\* C3: with skip_invalid=True a failing record never stops the run: every
\* record handled so far is in exactly one of the two lists, the call
\* returns only after the whole (truncated) list, and every failure entry
\* holds its index, the raw record and a non-empty error list.
C3_FailuresAccumulate ==
    skip_invalid =>
        /\ error # "ValidationError"
        /\ Len(valid_properties) + Len(invalid_records) = idx
        /\ Len(validated) = idx
        /\ ExtractReturned => idx = Len(raw_data)
        /\ \A k \in DOMAIN invalid_records :
               LET f == invalid_records[k]
               IN  /\ f.record_index \in 1..idx
                   /\ f.raw_record = raw_data[f.record_index]
                   /\ f.errors # <<>>
                   /\ f.errors = validation_errors(raw_data[f.record_index])
                   /\ \A j \in DOMAIN invalid_records :
                          invalid_records[j].record_index = f.record_index => j = k
        /\ Len(valid_properties) = Len(ValidIndexes(idx))

C3_Witness ==
    /\ skip_invalid
    /\ ExtractReturned
    /\ Len(raw_data) = 3
    /\ Len(invalid_records) = 1
    /\ invalid_records[1].record_index = 1
    /\ Len(valid_properties) = 2

\* C4: both lists keep the input order: the valid Properties are those of
\* the validating records, in the order of their indexes, and the
\* record_index values of the failure list increase strictly.
C4_OrderPreserved ==
    /\ LET from == ValidIndexes(idx)
       IN  /\ Len(valid_properties) = Len(from)
           /\ \A k \in DOMAIN valid_properties :
                  valid_properties[k] = validated_model(raw_data[from[k]])
    /\ \A j, k \in DOMAIN invalid_records :
           j < k => invalid_records[j].record_index < invalid_records[k].record_index

C4_Witness ==
    /\ ExtractReturned
    /\ Len(valid_properties) = 2
    /\ valid_properties[1] # valid_properties[2]
    /\ Len(invalid_records) = 1
    /\ invalid_records[1].record_index = 2

\* C5: with skip_invalid=False the first failing record raises at once:
\* it is the only failure recorded, every record before it validated, no
\* record after it is validated, and the call never returns its lists.
C5_StopOnFirstFailure ==
    (~skip_invalid /\ invalid_records # <<>>) =>
        /\ pc \in {"raised", "done"}
        /\ error = "ValidationError"
        /\ ~ExtractReturned
        /\ Len(invalid_records) = 1
        /\ invalid_records[1].record_index = idx
        /\ validated = [k \in 1..idx |-> k]
        /\ \A j \in 1..(idx - 1) : validation_errors(raw_data[j]) = <<>>
        /\ Len(valid_properties) = idx - 1
        /\ ~Transformed
        /\ db_log = <<>>

C5_Witness ==
    /\ ~skip_invalid
    /\ error = "ValidationError"
    /\ pc = "raised"
    /\ idx = 2
    /\ Len(raw_data) >= 3
    /\ Len(valid_properties) = 1

\* the cap in force: MAX_RECORDS under run_etl, the argument otherwise
Cap == IF entry = "run_etl" THEN MAX_RECORDS
       ELSE IF max_records.set THEN max_records.n ELSE 0

Parsed == pc \notin {"start", "extract"} /\ error \notin {"FileNotFoundError", "JSONDecodeError"}

\* C6: a cap of N > 0 keeps exactly the first min(N, total) parsed records,
\* in order; a cap of 0, or none, keeps them all; no record beyond the kept
\* ones is validated, and when the call returns all of them were.
C6_MaxRecords ==
    Parsed =>
        LET total == Len(parsed.records)
        IN  /\ Cap = 0 => raw_data = parsed.records
            /\ Cap > 0 => /\ Len(raw_data) = IF Cap < total THEN Cap ELSE total
                          /\ \A i \in DOMAIN raw_data : raw_data[i] = parsed.records[i]
            /\ \A k \in DOMAIN validated : validated[k] = k /\ k <= Len(raw_data)
            /\ ExtractReturned => Len(validated) = Len(raw_data)

C6_Witness ==
    /\ ExtractReturned
    /\ Cap = 2
    /\ Len(parsed.records) > 2
    /\ validated = <<1, 2>>

\* C10: when the repaired text does not parse, the JSONDecodeError is raised
\* before any record is validated: no list gets an entry, and run_etl
\* returns False without transforming or loading.
C10_ParseFailureAborts ==
    (file_exists /\ ~parses /\ pc \notin {"start", "extract"}) =>
        /\ pc \in {"raised", "done"}
        /\ error = "JSONDecodeError"
        /\ validated = <<>>
        /\ valid_properties = <<>>
        /\ invalid_records = <<>>
        /\ calls \in {<<>>, <<"extract">>}
        /\ facts = EmptyFacts
        /\ db_log = <<>>
        /\ pc = "done" => result = "False"

C10_Witness ==
    /\ file_exists
    /\ ~parses
    /\ entry = "run_etl"
    /\ pc = "done"
    /\ result = "False"

(***************************************************************************)
(* Properties of the validation of one record                              *)
(***************************************************************************)
\* the places of a raw record where a field of a kind holds a value:
\* [field, index, sub] locates it as an error does, [list, name] in the
\* validated Property
Occurrences(raw, kind) ==
    {[field |-> PropertyFields[i].alias, index |-> 0, sub |-> "",
      list |-> "", name |-> PropertyFields[i].name,
      value |-> Lookup(raw, PropertyFields[i])] :
        i \in {j \in DOMAIN PropertyFields :
                  Probed(kind, PropertyFields[j]) /\ Present(raw, PropertyFields[j])}}
    \cup UNION {
        LET c == PropertyChildLists[ci]
            items == IF Present(raw, c) /\ Lookup(raw, c).t = "list"
                     THEN Lookup(raw, c).items ELSE <<>>
        IN  UNION {
              {[field |-> c.alias, index |-> n, sub |-> c.fields[i].alias,
                list |-> c.name, name |-> c.fields[i].name,
                value |-> Lookup(items[n], c.fields[i])] :
                  i \in {j \in DOMAIN c.fields :
                            Probed(kind, c.fields[j]) /\ Present(items[n], c.fields[j])}}
              : n \in DOMAIN items}
        : ci \in DOMAIN PropertyChildLists}

ErrorAt(errors, occ) ==
    \E k \in DOMAIN errors :
        /\ errors[k].field = occ.field
        /\ errors[k].index = occ.index
        /\ errors[k].sub = occ.sub

ResultValue(property, occ) ==
    IF occ.index = 0 THEN property[occ.name]
    ELSE property[occ.list].items[occ.index][occ.name]

\* one record went through load_properties_from_json
OneRecordDone == pc = "returned" /\ Len(raw_data) = 1

ReportedErrors == IF invalid_records = <<>> THEN <<>> ELSE invalid_records[1].errors

MissingRequired(raw) ==
    {PropertyFields[i].alias :
        i \in {j \in DOMAIN PropertyFields :
                  PropertyFields[j].required /\ ~Present(raw, PropertyFields[j])}}

\* C7: a record that lacks the required fields S and is valid otherwise
\* gives exactly one failure entry, whose error list has exactly one error
\* for each field of S, and gives no valid Property.
C7_AllMissingReported ==
    OneRecordDone =>
        LET raw == raw_data[1]
            S   == MissingRequired(raw)
        IN  (S # {} /\ validation_errors(raw @@ BaseRecord(<<"P">>)) = <<>>) =>
                /\ valid_properties = <<>>
                /\ Len(invalid_records) = 1
                /\ Len(ReportedErrors) = Cardinality(S)
                /\ \A a \in S :
                       Cardinality({k \in DOMAIN ReportedErrors :
                                       /\ ReportedErrors[k].field = a
                                       /\ ReportedErrors[k].index = 0
                                       /\ ReportedErrors[k].type = "missing"}) = 1

C7_Witness ==
    /\ OneRecordDone
    /\ MissingRequired(raw_data[1]) = {"City", "Latitude", "Property_Type"}
    /\ Len(invalid_records) = 1
    /\ Len(invalid_records[1].errors) = 3
    /\ valid_properties = <<>>

ExpectedFlag(v) ==
    IF v.t = "str" /\ Upper(Strip(v.s)) \in {YES, NO}
    THEN VStr(Upper(Strip(v.s)))
    ELSE VNull

\* C8: every tri-state flag input (of the Property, of an HOA record, of a
\* rehab record) is normalised to YES or NO when it is yes/no up to case and
\* surrounding whitespace, becomes None otherwise, and never gives a
\* validation error.
C8_FlagsNeverFail ==
    OneRecordDone =>
        \A occ \in Occurrences(raw_data[1], "flag") :
            /\ ~ErrorAt(ReportedErrors, occ)
            /\ valid_properties # <<>> =>
                   ResultValue(valid_properties[1], occ) = ExpectedFlag(occ.value)

\* what stripping all but digits and points and parsing the rest gives; a
\* text that keeps digits but is no float literal (two points) is left open
KeptText(chars) == SelectSeq(chars, IsNumericChar)

StripsToNone(chars) == CountDigits(KeptText(chars)) = 0

StripsToFloat(chars) ==
    CountDigits(KeptText(chars)) >= 1 /\ CountDots(KeptText(chars)) <= 1

StrippedFloat(chars) ==
    VNum(DigitsToInt(KeptText(chars), 0), FractionDigits(KeptText(chars)))

HasLetter(chars) ==
    \E i \in DOMAIN chars : \E j \in DOMAIN LowerLetters : chars[i] = LowerLetters[j]

Called(stage) == \E i \in DOMAIN calls : calls[i] = stage

StageOrder == <<"extract", "transform", "load">>

\* C11: run_etl calls its stages in the order extract, transform, load;
\* load_to_database is called only after the extraction returned at least
\* one valid Property and the transformation was done; when no record
\* survives validation or the extraction raises, run_etl returns False and
\* load_to_database is never called; every raise ends in False.
C11_StagesOrdered ==
    entry = "run_etl" =>
        /\ Len(calls) <= Len(StageOrder)
        /\ \A i \in DOMAIN calls : calls[i] = StageOrder[i]
        /\ Called("transform") =>
              /\ ExtractReturned
              /\ valid_properties # <<>>
        /\ Called("load") =>
              /\ valid_properties # <<>>
              /\ Len(facts.properties) = Len(valid_properties)
        /\ ~Called("load") => db_log = <<>>
        /\ (pc = "done" /\ (valid_properties = <<>> \/ error \in ExtractErrors)) =>
              /\ result = "False"
              /\ ~Called("transform")
              /\ ~Called("load")
        /\ (pc = "done" /\ error # "") => result = "False"
        /\ result = "True" => (calls = StageOrder /\ error = "")

\* the extraction returned, every record failed validation, run_etl gave up
C11_Witness ==
    /\ entry = "run_etl"
    /\ pc = "done"
    /\ error = ""
    /\ valid_properties = <<>>
    /\ Len(invalid_records) >= 2
    /\ calls = <<"extract">>
    /\ result = "False"

NonEmptyValue(v) == v.t = "str" /\ Len(v.s) >= 1

DimensionKeys == <<
    [dim |-> "markets", key |-> "market"],
    [dim |-> "sources", key |-> "source"],
    [dim |-> "property_types", key |-> "property_type"],
    [dim |-> "layouts", key |-> "layout"] >>

Reversed(rows) == [i \in DOMAIN rows |-> rows[Len(rows) + 1 - i]]

\* C18: each of the four dimension sets holds exactly the distinct
\* non-empty values of its field over the properties rows (absent and empty
\* values skipped); the facts read are left as the transformation made them,
\* and the same rows in another order give the same sets.
C18_DimensionValues ==
    Transformed =>
        /\ \A d \in DOMAIN DimensionKeys :
              LET dim  == dimensions[DimensionKeys[d].dim]
                  key  == DimensionKeys[d].key
                  rows == facts.properties
              IN  /\ \A i \in DOMAIN rows :
                        NonEmptyValue(rows[i][key]) <=> rows[i][key] \in dim
                  /\ \A v \in dim : \E i \in DOMAIN rows : rows[i][key] = v
                  /\ Cardinality(dim) <= Len(rows)
        /\ facts = transform_properties_to_facts(valid_properties)
        /\ extract_dimension_values(
               [facts EXCEPT !.properties = Reversed(facts.properties)]) = dimensions

\* three rows: two with the same market, one with an empty market
C18_Witness ==
    /\ Transformed
    /\ Len(facts.properties) = 3
    /\ facts.properties[1]["market"] = facts.properties[2]["market"]
    /\ facts.properties[3]["market"] = VStr(<<>>)
    /\ facts.properties[1]["layout"] = VNull
    /\ dimensions.markets = {VStr(<<"D">>)}
    /\ dimensions.layouts = {VStr(<<"F">>)}

LogIndexes(op) == {i \in DOMAIN db_log : db_log[i].op = op}

EntityIndex(ent) == CHOOSE k \in DOMAIN EntityOrder : EntityOrder[k] = ent

IsEntity(what) == \E k \in DOMAIN EntityOrder : EntityOrder[k] = what

NonEmptyEntities == {k \in DOMAIN EntityOrder : facts[EntityOrder[k]] # <<>>}

\* the entity types load_to_database tried to insert, as positions of
\* EntityOrder
Attempted == {EntityIndex(db_log[i].what) : i \in LogIndexes("insert")}

EntityRollbacks == {i \in LogIndexes("rollback") : IsEntity(db_log[i].what)}

\* C19: load_to_database inserts properties, valuations, hoa_fees,
\* rehab_assessments in that order, each followed by its own commit, and
\* skips an entity type with no rows; a failed insert is rolled back and
\* raised, nothing is attempted after it, what was committed before stays
\* committed, and no connection is left open on any exit path.
C19_LoadOrder ==
    Called("load") =>
        /\ \A i, j \in LogIndexes("insert") :
              i < j => EntityIndex(db_log[i].what) < EntityIndex(db_log[j].what)
        /\ \A i \in LogIndexes("insert") :
              /\ facts[db_log[i].what] # <<>>
              /\ i < Len(db_log)
              /\ db_log[i + 1].op \in {"commit", "rollback"}
              /\ db_log[i + 1].what = db_log[i].what
        /\ \A i \in EntityRollbacks :
              /\ i + 1 = Len(db_log)
              /\ db_log[i + 1].op = "close"
              /\ error = "MySQLError"
              /\ result = "False"
              /\ \A j \in 1..(i - 1) :
                    db_log[j].op = "commit" => db_log[j].what # db_log[i].what
              /\ Attempted =
                    {k \in NonEmptyEntities : k <= EntityIndex(db_log[i].what)}
        /\ \A i \in LogIndexes("commit") :
              IsEntity(db_log[i].what) =>
                  /\ i > 1
                  /\ db_log[i - 1] = [op |-> "insert", what |-> db_log[i].what]
        /\ error = "" =>
              /\ Attempted = NonEmptyEntities
              /\ EntityRollbacks = {}
        /\ LogIndexes("connect") # {} =>
              /\ LogIndexes("close") = {Len(db_log)}
              /\ LogIndexes("connect") = {1}
        /\ LogIndexes("connect") = {} =>
              db_log = << [op |-> "connect_failed", what |-> ""] >>

\* properties committed, the insert of valuations failed and was rolled
\* back, hoa_fees had rows and was not attempted, the connection was closed
C19_Witness ==
    /\ Called("load")
    /\ error = "MySQLError"
    /\ facts.hoa_fees # <<>>
    /\ \E i \in LogIndexes("commit") : db_log[i].what = "properties"
    /\ \E i \in LogIndexes("rollback") : db_log[i].what = "valuations"
    /\ \A i \in DOMAIN db_log : db_log[i].what # "hoa_fees"
    /\ db_log[Len(db_log)].op = "close"

(***************************************************************************)
(* The repair of the text                                                  *)
(***************************************************************************)
\* the rule that logs a fix with this message
RuleOfFix(fix) ==
    CASE fix \in {"Quoted bareword", "Converted number word to digit"} -> "bareword"
      [] fix = "Quoted number with unit"       -> "number_unit"
      [] fix = "Removed trailing comma before" -> "trailing_comma"
      [] fix = "Quoted unquoted key"           -> "unquoted_key"
      [] fix = "Removed bare number in object" -> "bare_number"

LoggedBy(log, rules) == {i \in DOMAIN log : RuleOfFix(log[i].fix) \in rules}

Contains(text, part) ==
    \E i \in 1..(Len(text) - Len(part) + 1) : SubSeq(text, i, i + Len(part) - 1) = part

\* repair_bareword_values has applied its last rule
Repaired == rule = 6

NoOpRules == {"bareword", "trailing_comma", "unquoted_key"}

\* C12: on a text that is already well-formed JSON (keys quoted, values
\* quoted strings or literals, no comma before a closing brace or bracket)
\* the bareword, trailing-comma and unquoted-key rules log no fix and leave
\* the text as it is, whatever its quoted strings hold.
C12_NoOpOnWellFormed ==
    (Repaired /\ json_loads(raw_json_str).ok) =>
        /\ LoggedBy(fixes, NoOpRules) = {}
        /\ \A r \in NoOpRules : re_sub(r, raw_json_str, 1) = Replaced(raw_json_str, <<>>)

\* C13: after the unquoted-key rule, every key it reports as quoted stands
\* in the text as {"key": with one quote on each side.
C13_KeyQuoted ==
    rule >= 5 =>
        \A i \in DOMAIN fixes :
            fixes[i].fix = "Quoted unquoted key" =>
                Contains(repaired, <<"{">> \o Quoted(fixes[i].arg) \o <<":">>)

\* C14: repair deletes no number that is in a valid value position: on a
\* well-formed text of arrays, numbers and literals (no quoted string in
\* it) no stray number is removed and the parsed value stays the same.
C14_ValidNumbersKept ==
    (Repaired /\ json_loads(raw_json_str).ok /\ ~Contains(raw_json_str, <<"\"">>)) =>
        /\ LoggedBy(fixes, {"bare_number"}) = {}
        /\ json_loads(repaired) = json_loads(raw_json_str)

\* what each rule returns when the five are applied once each in the order
\* bareword, number-unit, trailing-comma, unquoted-key, bare-number
Passes(text) ==
    LET p1 == re_sub("bareword", text, 1)
        p2 == re_sub("number_unit", p1.text, 1)
        p3 == re_sub("trailing_comma", p2.text, 1)
        p4 == re_sub("unquoted_key", p3.text, 1)
        p5 == re_sub("bare_number", p4.text, 1)
    IN  <<Replaced(text, <<>>), p1, p2, p3, p4, p5>>

RECURSIVE FixesUpTo(_, _)
FixesUpTo(passes, k) ==
    IF k = 1 THEN <<>> ELSE FixesUpTo(passes, k - 1) \o passes[k].fixes

RulePosition(name) ==
    CASE name = "bareword" -> 1 [] name = "number_unit" -> 2
      [] name = "trailing_comma" -> 3 [] name = "unquoted_key" -> 4
      [] name = "bare_number" -> 5

\* the substitutions one pass of a rule makes from pos on: its matches,
\* left to right and not overlapping, that put another text in place
RECURSIVE Substitutions(_, _, _)
Substitutions(name, text, pos) ==
    LET starts == MatchesFrom(name, text, pos)
    IN  IF starts = {} THEN 0
        ELSE LET i == CHOOSE k \in starts : \A j \in starts : k <= j
                 m == Match(name, text, i)
             IN  (IF Fix(name, m).text # m.g0 THEN 1 ELSE 0)
                 + Substitutions(name, text, m.end)

\* C15: the five rules run in the order bareword, number-unit,
\* trailing-comma, unquoted-key, bare-number, each once over what the rule
\* before it returned, and the fix log holds one entry per substitution,
\* grouped in that order.
C15_FixedOrder ==
    rule >= 1 =>
        LET passes == Passes(raw_json_str)
        IN  /\ rule <= 6
            /\ repaired = passes[rule].text
            /\ fixes = FixesUpTo(passes, rule)
            /\ \A i, j \in DOMAIN fixes :
                  i < j => RulePosition(RuleOfFix(fixes[i].fix))
                               <= RulePosition(RuleOfFix(fixes[j].fix))
            /\ \A k \in 1..(rule - 1) :
                  Cardinality({i \in DOMAIN fixes :
                                  RulePosition(RuleOfFix(fixes[i].fix)) = k})
                      = Substitutions(RuleOrder[k], passes[k].text, 1)

\* two rules have logged a fix, and the text returned is one the
\* trailing-comma rule still matches: nothing was run a second time
C15_Witness ==
    /\ Repaired
    /\ LoggedBy(fixes, {"unquoted_key"}) # {}
    /\ LoggedBy(fixes, {"bare_number"}) # {}
    /\ \A i \in LoggedBy(fixes, {"unquoted_key"}) :
          \A j \in LoggedBy(fixes, {"bare_number"}) : i < j
    /\ re_sub("trailing_comma", repaired, 1).fixes # <<>>

IsNumberWord(word) == \E i \in DOMAIN NumberWords : NumberWords[i].word = Lower(word)

DigitString(word) ==
    NumberWords[CHOOSE i \in DOMAIN NumberWords : NumberWords[i].word = Lower(word)].digits

IsReserved(word) == Lower(word) \in ReservedWords

\* the field of a document after the bareword rule
BarewordExpected(d) ==
    IF IsReserved(d.word) THEN Field(d.key, d.pre, d.word, d.post)
    ELSE IF IsNumberWord(d.word) THEN Field(d.key, <<" ">>, DigitString(d.word), <<>>)
    ELSE Field(d.key, <<" ">>, Quoted(d.word), <<>>)

BarewordLogged(d) ==
    IF IsReserved(d.word) THEN <<>>
    ELSE IF IsNumberWord(d.word)
         THEN << Fixed("Converted number word to digit", d.word, DigitString(d.word)) >>
         ELSE << Fixed("Quoted bareword", d.word, <<>>) >>

\* C16: a capitalized bareword after a colon and before a delimiter is
\* replaced by its digits when it is a number word, left as it is (no fix
\* logged) when it is true, false or null in any letter case, and quoted
\* otherwise; the record whose City was the bareword Springfield validates
\* with city = "Springfield".
C16_Bareword ==
    /\ \A i \in LoggedBy(fixes, {"bareword"}) :
          /\ IsUpper(Head(fixes[i].arg))
          /\ ~IsReserved(fixes[i].arg)
          /\ fixes[i].fix = "Converted number word to digit" <=> IsNumberWord(fixes[i].arg)
          /\ IsNumberWord(fixes[i].arg) => fixes[i].to = DigitString(fixes[i].arg)
    /\ \A d \in BarewordDocs :
          (d.text = raw_json_str /\ rule >= 2) =>
              /\ repaired = Document(FieldsWith(BarewordExpected(d), d.place))
              /\ fixes = BarewordLogged(d)
              /\ (pc = "returned" /\ ~IsReserved(d.word)) =>
                    /\ invalid_records = <<>>
                    /\ Len(valid_properties) = 1
                    /\ d.key = "City" => valid_properties[1]["city"] = VStr(d.word)
                    /\ d.key = "Bed" =>
                          valid_properties[1]["bed"]
                              = VNum(DigitsToInt(DigitString(d.word), 0), 0)
                    /\ d.key = "Pool" => valid_properties[1]["pool"] = VStr(Upper(d.word))

C16_Witness ==
    /\ pc = "returned"
    /\ Contains(raw_json_str, Chars("\"City\": Springfield,"))
    /\ Contains(repaired, Chars("\"City\": \"Springfield\","))
    /\ fixes = << Fixed("Quoted bareword", Chars("Springfield"), <<>>) >>
    /\ Len(valid_properties) = 1
    /\ valid_properties[1]["city"] = VStr(Chars("Springfield"))

\* C17: a value written as a number, whitespace and a lowercase unit
\* before a delimiter becomes the one string literal "<number> <unit>", and
\* as the value of SQFT_Total it validates with sqft_total the number.
C17_NumberUnit ==
    /\ rule = 3 =>
          \A i \in LoggedBy(fixes, {"number_unit"}) :
              Contains(repaired, <<":", " ">> \o Quoted(fixes[i].arg))
    /\ \A d \in NumberUnitDocs :
          (d.text = raw_json_str /\ rule >= 3) =>
              LET literal == Quoted(d.number \o <<" ">> \o d.unit)
              IN  /\ repaired = Document(FieldsWith(
                                    Field("SQFT_Total", <<" ">>, literal, <<>>), d.place))
                  /\ fixes = << Fixed("Quoted number with unit",
                                      d.number \o <<" ">> \o d.unit, <<>>) >>
                  /\ pc = "returned" =>
                        /\ invalid_records = <<>>
                        /\ Len(valid_properties) = 1
                        /\ valid_properties[1]["sqft_total"] = d.float

C17_Witness ==
    /\ pc = "returned"
    /\ Contains(raw_json_str, Chars("\"SQFT_Total\": 5649 sqft,"))
    /\ Contains(repaired, Chars("\"SQFT_Total\": \"5649 sqft\","))
    /\ Len(valid_properties) = 1
    /\ valid_properties[1]["sqft_total"] = VNum(5649, 0)

\* C20 as claimed: applying repair_bareword_values to the text it returned
\* changes nothing and logs nothing, and the returned text has no comma
\* before a closing brace or bracket.
C20_Idempotent ==
    Repaired =>
        /\ repair_bareword_values(repaired) = Replaced(repaired, <<>>)
        /\ MatchesFrom("trailing_comma", repaired, 1) = {}

\* C20 as amended: on the text it returned, the bareword, number-unit and
\* unquoted-key rules change nothing and log nothing; only the
\* trailing-comma and bare-number rules can still find a match, and a
\* second application that logs nothing changes nothing.
C20_SecondPass ==
    Repaired =>
        LET again == repair_bareword_values(repaired)
        IN  /\ LoggedBy(again.fixes, {"bareword", "number_unit", "unquoted_key"}) = {}
            /\ re_sub("bareword", repaired, 1) = Replaced(repaired, <<>>)
            /\ re_sub("number_unit", repaired, 1) = Replaced(repaired, <<>>)
            /\ re_sub("unquoted_key", repaired, 1) = Replaced(repaired, <<>>)
            /\ again.fixes = <<>> => again.text = repaired

\* the first application removed a stray number, which left a comma before
\* the closing brace; the second application removes that comma
C20_Witness ==
    /\ Repaired
    /\ LoggedBy(fixes, {"bare_number"}) # {}
    /\ MatchesFrom("trailing_comma", repaired, 1) # {}
    /\ LoggedBy(repair_bareword_values(repaired).fixes, {"trailing_comma"}) # {}

====
